---- MODULE Spec2Model ----
(***************************************************************************)
(* Model of the spec-kit template cache / extraction pipeline and of the   *)
(* delimited-section merge of AGENTS.md.                                   *)
(*                                                                         *)
(* Text is modelled as a sequence of tokens.  The token "O" is the opening *)
(* marker <specify>, "C" the closing marker </specify>, "a" a letter (a    *)
(* character that may be part of a $name reference), "n" a newline (a      *)
(* character that may not) and "$" the dollar sign.  The markers cannot    *)
(* overlap one another or be built from the other tokens, so counting and  *)
(* matching on tokens is counting and matching on the text.  The text      *)
(* holds no "{{" template action, no digit and no "{", so the template     *)
(* engine leaves it as it is and "$" is only ever followed by a letter,    *)
(* another "$", a newline or a marker.                                     *)
(***************************************************************************)
EXTENDS Integers, Sequences, FiniteSets, TLC

\* ------------------------------------------------------------------ bounds
MaxDocLen == 3
MaxTmplLen == 4
MaxCalls == 2
MaxContent == 2
MaxEntries == 3
MaxSteps == 6

\* ------------------------------------------------------------- text model
Tokens == {"O", "C", "a", "n", "$"}

\* the tokens a template file is drawn from
TmplTokens == {"O", "C", "a", "$"}

Absent == <<"absent">>

RECURSIVE TextsOfLen(_, _)
TextsOfLen(k, alphabet) ==
    IF k = 0 THEN {<<>>}
    ELSE {Append(t, c) : t \in TextsOfLen(k - 1, alphabet), c \in alphabet}

TextsUpTo(k, alphabet) == UNION {TextsOfLen(i, alphabet) : i \in 0..k}

\* strings.Count(content, marker)
Count(s, tok) == Cardinality({i \in 1..Len(s) : s[i] = tok})

\* index of the first tok at a position >= pos, 0 when there is none
IndexFrom(s, tok, pos) ==
    IF \E i \in pos..Len(s) : s[i] = tok
    THEN CHOOSE i \in pos..Len(s) : s[i] = tok /\ \A k \in pos..(i - 1) : s[k] # tok
    ELSE 0

\* regexp.Regexp.expand on the replacement text: "$$" is a literal dollar,
\* "$" followed by a name (the longest run of letters) is a reference to a
\* group the expression does not have and expands to nothing, and "$"
\* followed by anything else is malformed and kept as raw text.
RECURSIVE Expand(_)
Expand(t) ==
    IF t = <<>> THEN <<>>
    ELSE IF Head(t) # "$" THEN <<Head(t)>> \o Expand(Tail(t))
    ELSE LET after == Tail(t) IN
         IF after # <<>> /\ Head(after) = "$" THEN <<"$">> \o Expand(Tail(after))
         ELSE IF after # <<>> /\ Head(after) = "a"
              THEN LET stop == IF \E i \in 1..Len(after) : after[i] # "a"
                               THEN CHOOSE i \in 1..Len(after) :
                                       after[i] # "a" /\ \A k \in 1..(i - 1) : after[k] = "a"
                               ELSE Len(after) + 1
                   IN Expand(SubSeq(after, stop, Len(after)))
              ELSE <<"$">> \o Expand(after)

\* specifySectionRe = (?s)<specify>.*?</specify> : the leftmost match starts
\* at the first opening marker that has a closing marker after it and ends
\* at the first closing marker after that opening marker.
MatchStart(s, pos) ==
    LET i == IndexFrom(s, "O", pos) IN
    IF i # 0 /\ IndexFrom(s, "C", i + 1) # 0 THEN i ELSE 0

MatchEnd(s, i) == IndexFrom(s, "C", i + 1)

\* specifySectionRe.FindString(content)
FindString(s) ==
    LET i == MatchStart(s, 1) IN
    IF i = 0 THEN <<>> ELSE SubSeq(s, i, MatchEnd(s, i))

\* specifySectionRe.ReplaceAllString(content, repl)
RECURSIVE ReplaceFrom(_, _, _)
ReplaceFrom(s, repl, pos) ==
    LET i == MatchStart(s, pos) IN
    IF i = 0 THEN SubSeq(s, pos, Len(s))
    ELSE SubSeq(s, pos, i - 1) \o Expand(repl) \o ReplaceFrom(s, repl, MatchEnd(s, i) + 1)

\* a replacement that stops after the first match and loses the rest
ReplaceAllStringTruncating(s, repl) ==
    LET i == MatchStart(s, 1) IN
    IF i = 0 THEN s ELSE SubSeq(s, 1, i - 1) \o Expand(repl)

ReplaceAllString(s, repl) == ReplaceFrom(s, repl, 1)

\* the built-in section and document used when no template file is found
DefaultSection == <<"O", "n", "a", "n", "C">>
DefaultDocument == <<"a", "n", "n">> \o DefaultSection

\* getSpecifySectionContent: the first section of the template file, or the
\* built-in section when the file is missing or holds no section
getSpecifySectionContent(tmpl) ==
    IF tmpl # Absent /\ FindString(tmpl) # <<>> THEN FindString(tmpl) ELSE DefaultSection

\* getAgentsMDTemplate: the whole template file, or the built-in document
getAgentsMDTemplate(tmpl) ==
    IF tmpl # Absent THEN tmpl ELSE DefaultDocument

\* marker checks that forget to compare the two counts
MalformedKindCountsOnly(content) ==
    IF Count(content, "O") > 1 \/ Count(content, "C") > 1 THEN "multiple" ELSE "none"

\* the marker checks of CreateOrUpdateAgentsMD / replaceDelimitedSection
MalformedKind(content) ==
    LET openCount == Count(content, "O")
        closeCount == Count(content, "C")
    IN IF openCount > 1 \/ closeCount > 1 THEN "multiple"
       ELSE IF openCount # closeCount THEN "mismatched"
       ELSE "none"

\* a merge that appends the section without the newline in front of it
replaceDelimitedSectionNoNewline(content, specifySection) ==
    IF Count(content, "O") = 1
    THEN ReplaceAllString(content, specifySection)
    ELSE content \o specifySection \o <<"n">>

\* replaceDelimitedSection: the new content of an existing document
replaceDelimitedSection(content, specifySection) ==
    IF Count(content, "O") = 1
    THEN ReplaceAllString(content, specifySection)
    ELSE content \o <<"n">> \o specifySection \o <<"n">>

\* ------------------------------------------------------- filesystem model
(***************************************************************************)
(* A path is a sequence of names.  A filesystem is a function from the     *)
(* paths that exist to their nodes: a directory, or a file with its data.  *)
(* Permissions and symbolic links are left out.                            *)
(***************************************************************************)
DirNode == [k |-> "dir"]
FileNode(d) == [k |-> "file", data |-> d]

\* the bytes of an ordinary file; 0 is the empty (truncated) file
Bytes(n) == [bytes |-> n]

Exists(f, p) == p \in DOMAIN f
IsDir(f, p) == p \in DOMAIN f /\ f[p].k = "dir"
IsFile(f, p) == p \in DOMAIN f /\ f[p].k = "file"

IsPrefix(p, q) == Len(p) <= Len(q) /\ SubSeq(q, 1, Len(p)) = p
Parent(p) == SubSeq(p, 1, Len(p) - 1)
Base(p) == p[Len(p)]

\* the names in use, in byte order (the order os.ReadDir and filepath.Walk use)
NameOrder ==
    <<"..", ".claude", ".codex", ".copilot", ".gemini", ".manifest.json", ".spec-kit", "README.md", "a", "b",
      "c", "commands", "dst", "etc", "extracted", "home", "kit", "memory", "proj",
      "spec-kit-cache-template.zip", "specify-auto-sync-", "specify-extract-",
      "specify-sync-", "src", "templates", "tmp", "tools", "x.md", "z.md">>

NameRank ==
    [nm \in {NameOrder[i] : i \in 1..Len(NameOrder)} |->
        CHOOSE i \in 1..Len(NameOrder) : NameOrder[i] = nm]

Rank(nm) == NameRank[nm]

\* p is visited before q by filepath.Walk (a directory before its entries,
\* the entries of a directory in name order)
RECURSIVE PathLess(_, _)
PathLess(p, q) ==
    IF p = <<>> THEN q # <<>>
    ELSE IF q = <<>> THEN FALSE
    ELSE IF Head(p) = Head(q) THEN PathLess(Tail(p), Tail(q))
    ELSE Rank(Head(p)) < Rank(Head(q))

\* the element of a set of one element
Only(S) == CHOOSE v \in S : TRUE

\* K applied to the value of v, computed once
With(v, K(_)) == Only({K(x) : x \in {v}})

\* the paths of S in the order of PathLess: the path with i - 1 paths before
\* it comes at place i
SortPaths(S) ==
    [i \in 1..Cardinality(S) |->
        CHOOSE p \in S : Cardinality({q \in S : PathLess(q, p)}) = i - 1]

\* the paths filepath.Walk(root) visits, in order; the root itself comes first
WalkList(f, root) ==
    With({p \in DOMAIN f : IsPrefix(root, p)}, LAMBDA S : SortPaths(S))

\* os.ReadDir(dir): the names of the entries of dir
ReadDir(f, dir) == {Base(p) : p \in {q \in DOMAIN f : Len(q) = Len(dir) + 1 /\ IsPrefix(dir, q)}}

\* filepath.Clean on a joined path: a ".." name removes the name before it
RECURSIVE CleanFrom(_, _)
CleanFrom(done, rest) ==
    IF rest = <<>> THEN done
    ELSE IF Head(rest) = ".."
         THEN CleanFrom(IF done = <<>> THEN <<>> ELSE Parent(done), Tail(rest))
         ELSE CleanFrom(Append(done, Head(rest)), Tail(rest))

\* filepath.Join(dir, rel)
Join(dir, rel) == CleanFrom(<<>>, dir \o rel)

\* an operation that succeeded and left the filesystem f
Ok(f) == [fs |-> f, err |-> "none"]

\* an operation that failed with msg and left the filesystem f
Fail(f, msg) == [fs |-> f, err |-> msg]

\* "if err != nil { return err }": the rest K of an operation runs on the
\* filesystem the step r left, unless r failed (x is the outcome of r,
\* computed once)
Then(r, K(_)) == Only({IF x.err # "none" THEN x ELSE K(x.fs) : x \in {r}})

\* "if err != nil { return fmt.Errorf(msg, err) }"
ThenAs(r, msg, K(_)) == Only({IF x.err # "none" THEN Fail(x.fs, msg) ELSE K(x.fs) : x \in {r}})

\* a directory creation that starts from an empty directory when one exists
CreateDirectoryFresh(f, p) ==
    IF \E i \in 1..Len(p) : IsFile(f, SubSeq(p, 1, i))
    THEN [fs |-> f, err |-> "not a directory"]
    ELSE [fs |-> [q \in {x \in DOMAIN f : ~(IsPrefix(p, x) /\ x # p)}
                       \cup {SubSeq(p, 1, i) : i \in 1..Len(p)} |-> IF q \in DOMAIN f THEN f[q] ELSE DirNode],
          err |-> "none"]

\* FilesystemService.CreateDirectory = os.MkdirAll(path): fails when a name on
\* the way is a file, otherwise every missing directory on the way is made
CreateDirectory(f, p) ==
    IF \E i \in 1..Len(p) : IsFile(f, SubSeq(p, 1, i))
    THEN [fs |-> f, err |-> "not a directory"]
    ELSE [fs |-> [q \in DOMAIN f \cup {SubSeq(p, 1, i) : i \in 1..Len(p)} |->
                     IF q \in DOMAIN f THEN f[q] ELSE DirNode],
          err |-> "none"]

\* os.OpenFile(path, O_WRONLY|O_CREATE|O_TRUNC) followed by the write of d
WriteData(f, p, d) == [q \in DOMAIN f \cup {p} |-> IF q = p THEN FileNode(d) ELSE f[q]]

\* FilesystemService.copyFile(srcPath, destPath): fault is "none", "open" (the
\* destination cannot be opened) or "copy" (io.Copy fails after the
\* destination was truncated)
copyFile(f, srcPath, destPath, fault) ==
    IF ~IsFile(f, srcPath) THEN Fail(f, "failed to open source file")
    ELSE Then(CreateDirectory(f, Parent(destPath)), LAMBDA g :
              IF IsDir(g, destPath) \/ fault = "open"
              THEN Fail(g, "failed to create destination file")
              ELSE IF fault = "copy"
              THEN Fail(WriteData(g, destPath, Bytes(0)), "failed to copy file contents")
              ELSE Ok(WriteData(g, destPath, f[srcPath].data)))

\* FilesystemService.RemoveDirectory = os.RemoveAll(path)
RemoveDirectory(f, p) == [q \in {x \in DOMAIN f : ~IsPrefix(p, x)} |-> f[q]]

\* an operation that leaves its scratch directory behind
CleanupNever(r, tempDir) == r

\* "defer RemoveDirectory(tempDir)" after the outcome r
Cleanup(r, tempDir) == Only({[fs |-> RemoveDirectory(x.fs, tempDir), err |-> x.err] : x \in {r}})

NoFault == [at |-> 0, kind |-> "none", phase |-> "none"]

\* the walk function of MergeDirectories on the entry path; hit is the I/O
\* fault the entry meets
MergeEntry(f, path, srcDir, destDir, hit) ==
    IF IsDir(f, path)
    THEN IF hit # "none" THEN Fail(f, "failed to create directory")
         ELSE CreateDirectory(f, Join(destDir, SubSeq(path, Len(srcDir) + 1, Len(path))))
    ELSE copyFile(f, path, Join(destDir, SubSeq(path, Len(srcDir) + 1, Len(path))), hit)

\* the walk of MergeDirectories over the entries list[i..]; the entry number
\* fault.at meets the I/O fault fault.kind
RECURSIVE MergeWalk(_, _, _, _, _, _)
MergeWalk(f, list, i, srcDir, destDir, fault) ==
    IF i > Len(list) THEN Ok(f)
    ELSE Then(MergeEntry(f, list[i], srcDir, destDir,
                         IF fault.at = i THEN fault.kind ELSE "none"),
              LAMBDA g : MergeWalk(g, list, i + 1, srcDir, destDir, fault))

\* FilesystemService.MergeDirectories(srcDir, destDir)
MergeDirectories(f, srcDir, destDir, fault) ==
    IF ~Exists(f, srcDir) THEN Fail(f, "error walking source directory")
    ELSE With(WalkList(f, srcDir), LAMBDA list :
              MergeWalk(f, list, 1, srcDir, destDir, fault))

\* -------------------------------------------------------- archive extractor
(***************************************************************************)
(* A ZIP archive is a record: ok tells whether zip.OpenReader can read it, *)
(* entries is the sequence of its entries.  An entry has a name (the names *)
(* of its path), abs (the path starts at the root), dir and its data.      *)
(***************************************************************************)
Names(path) == {path[i] : i \in 1..Len(path)}

\* a check that forgets the parent-directory test
validateZIPFilePathAbsOnly(e) ==
    IF e.abs THEN "absolute path not allowed" ELSE "none"

\* FilesystemService.validateZIPFilePath(file.Name)
validateZIPFilePath(e) ==
    IF ".." \in Names(e.name) THEN "contains '..'"
    ELSE IF e.abs THEN "absolute path not allowed"
    ELSE "none"

\* FilesystemService.extractZIPFile(file, destDir)
extractZIPFile(f, e, destDir, hit) ==
    LET path == Join(destDir, e.name) IN
    IF validateZIPFilePath(e) # "none" THEN Fail(f, validateZIPFilePath(e))
    ELSE IF ~IsPrefix(destDir, path) THEN Fail(f, "potential directory traversal")
    ELSE IF e.dir
    THEN IF hit # "none" THEN Fail(f, "failed to create directory")
         ELSE CreateDirectory(f, path)
    ELSE Then(CreateDirectory(f, Parent(path)), LAMBDA g :
              IF IsDir(g, path) \/ hit = "open"
              THEN Fail(g, "failed to create target file")
              ELSE IF hit = "copy"
              THEN Fail(WriteData(g, path, Bytes(0)), "failed to copy file contents")
              ELSE Ok(WriteData(g, path, e.data)))

RECURSIVE ExtractEntries(_, _, _, _, _)
ExtractEntries(f, entries, i, destDir, fault) ==
    IF i > Len(entries) THEN Ok(f)
    ELSE Then(extractZIPFile(f, entries[i], destDir,
                             IF fault.at = i THEN fault.kind ELSE "none"),
              LAMBDA g : ExtractEntries(g, entries, i + 1, destDir, fault))

\* FilesystemService.ExtractZIP(zipPath, destDir)
ExtractZIP(f, archive, destDir, fault) ==
    IF ~archive.ok THEN Fail(f, "failed to open ZIP file")
    ELSE Then(CreateDirectory(f, destDir), LAMBDA g :
              ExtractEntries(g, archive.entries, 1, destDir, fault))

\* the directory os.MkdirTemp makes for ExtractZIPWithFlatten
TmpExtract == <<"tmp", "specify-extract-">>

\* the fault of one phase of an operation: f when it is aimed at that phase
FaultIn(fault, phase) == IF fault.at # 0 /\ fault.phase = phase THEN fault ELSE NoFault

\* an ExtractZIPWithFlatten that never takes the only entry for the payload
FlattenSourceNever(f, tempDir) == tempDir

\* the directory ExtractZIPWithFlatten merges from: the only entry of tempDir
\* when that is a directory, otherwise tempDir
FlattenSource(f, tempDir) ==
    LET entries == ReadDir(f, tempDir) IN
    IF Cardinality(entries) = 1 /\ \A nm \in entries : IsDir(f, Append(tempDir, nm))
    THEN Append(tempDir, CHOOSE nm \in entries : TRUE)
    ELSE tempDir

\* FilesystemService.ExtractZIPWithFlatten(zipPath, destDir)
ExtractZIPWithFlatten(f, archive, destDir, fault) ==
    Then(CreateDirectory(f, TmpExtract), LAMBDA t :
         Cleanup(Then(ExtractZIP(t, archive, TmpExtract, FaultIn(fault, "extract")), LAMBDA x :
                      Then(CreateDirectory(x, destDir), LAMBDA m :
                           MergeDirectories(m, FlattenSource(x, TmpExtract), destDir,
                                            FaultIn(fault, "merge")))),
                 TmpExtract))

\* ---------------------------------------------------------- template cache
(***************************************************************************)
(* The data of a file is a record.  [bytes |-> n] is plain text with no    *)
(* template action, [action |-> k] is text holding a template action       *)
(* ("assistant" for {{.AIAssistant}}, "bad" for one that does not parse),  *)
(* [text |-> a] is the output of an action executed for assistant a, and a *)
(* record with the fields SpecKitVersion and Templates is a cache manifest *)
(* in JSON.                                                                *)
(***************************************************************************)
CacheRoot == <<"home", ".spec-kit", "templates">>
ManifestName == ".manifest.json"
AssetName == "spec-kit-cache-template.zip"
TmpAutoSync == <<"tmp", "specify-auto-sync-">>
TmpSync == <<"tmp", "specify-sync-">>

Action(kind) == [action |-> kind]

\* TemplateService.GetSpecKitVersion()
GetSpecKitVersion == "dev"

\* TemplateService.isVersionCompatible(cacheVersion, currentVersion)
isVersionCompatible(cacheVersion, currentVersion) ==
    IF currentVersion = "dev" THEN TRUE
    ELSE IF cacheVersion = "dev" THEN TRUE
    ELSE cacheVersion = currentVersion

\* CacheManifest.IsVersionMatch(version)
IsVersionMatch(cm, version) == cm.SpecKitVersion = version

\* TemplateService.CalculateFileHash: the SHA-256 of the data, which tells
\* any two of the data of the model apart
CalculateFileHash(d) == [sha256 |-> d]

\* TemplateService.ResolveRoot(): homeOK tells whether os.UserHomeDir succeeds
ResolveRoot(homeOK) ==
    IF homeOK THEN [root |-> CacheRoot, err |-> "none"]
    ELSE [root |-> <<>>, err |-> "failed to get user home directory"]

NoManifest == [SpecKitVersion |-> "", Templates |-> <<>>]

\* TemplateService.readManifestFromPath(cacheRoot)
readManifestFromPath(f, cacheRoot) ==
    LET manifestPath == Append(cacheRoot, ManifestName) IN
    IF ~IsFile(f, manifestPath)
    THEN [manifest |-> NoManifest, err |-> "manifest file does not exist"]
    ELSE IF "Templates" \notin DOMAIN f[manifestPath].data
    THEN [manifest |-> NoManifest, err |-> "failed to parse manifest JSON"]
    ELSE [manifest |-> f[manifestPath].data, err |-> "none"]

\* TemplateService.ReadManifest()
ReadManifest(f, homeOK) ==
    IF ResolveRoot(homeOK).err # "none"
    THEN [manifest |-> NoManifest, err |-> ResolveRoot(homeOK).err]
    ELSE readManifestFromPath(f, ResolveRoot(homeOK).root)

\* TemplateService.isCacheEmpty(cacheRoot)
isCacheEmpty(f, cacheRoot) ==
    IF ~IsDir(f, cacheRoot) THEN TRUE
    ELSE IF ~IsFile(f, Append(cacheRoot, ManifestName)) THEN TRUE
    ELSE {nm \in ReadDir(f, cacheRoot) :
              ~IsDir(f, Append(cacheRoot, nm)) /\ nm # ManifestName} = {}

\* ValidateCache on the manifest entry rel: what the loop body returns
ValidateEntry(f, manifest, rel) ==
    IF ~IsFile(f, Join(CacheRoot, rel))
    THEN [err |-> "cached file missing", path |-> rel]
    ELSE IF CalculateFileHash(f[Join(CacheRoot, rel)].data) # manifest.Templates[rel]
    THEN [err |-> "hash mismatch", path |-> rel, expected |-> manifest.Templates[rel],
          actual |-> CalculateFileHash(f[Join(CacheRoot, rel)].data)]
    ELSE [err |-> "none"]

\* a validation that only looks for the files
ValidateCacheExistence(f, homeOK, manifest) ==
    IF ResolveRoot(homeOK).err # "none" THEN {[err |-> ResolveRoot(homeOK).err]}
    ELSE IF \A rel \in DOMAIN manifest.Templates : IsFile(f, Join(CacheRoot, rel))
    THEN {[err |-> "none"]}
    ELSE {[err |-> "cached file missing", path |-> rel] :
             rel \in {x \in DOMAIN manifest.Templates : ~IsFile(f, Join(CacheRoot, x))}}

\* TemplateService.ValidateCache(manifest): the errors it can return.  The
\* loop ranges over a Go map, whose order is not fixed, and returns at the
\* first entry that fails: any entry that fails can be that one.
ValidateCache(f, homeOK, manifest) ==
    IF ResolveRoot(homeOK).err # "none" THEN {[err |-> ResolveRoot(homeOK).err]}
    ELSE IF \A rel \in DOMAIN manifest.Templates : ValidateEntry(f, manifest, rel).err = "none"
    THEN {[err |-> "none"]}
    ELSE {ValidateEntry(f, manifest, rel) :
             rel \in {x \in DOMAIN manifest.Templates :
                         ValidateEntry(f, manifest, x).err # "none"}}

\* the file names with an extension of the binaryExts table
BinaryNames == {"logo.png"}

\* TemplateService.shouldProcessAsTemplate(filePath)
shouldProcessAsTemplate(filePath) == Base(filePath) \notin BinaryNames

\* Processor.ProcessWithName(name, content, data): text without an action
\* comes out as it is, an action is executed with data.AIAssistant
ProcessWithName(d, aiAssistant) ==
    IF "action" \notin DOMAIN d THEN [out |-> d, err |-> "none"]
    ELSE IF d.action = "assistant" THEN [out |-> [text |-> aiAssistant], err |-> "none"]
    ELSE [out |-> d, err |-> "failed to parse template"]

\* FilesystemService.WriteFile(path, content)
WriteFile(f, p, d) ==
    Then(CreateDirectory(f, Parent(p)), LAMBDA g :
         IF IsDir(g, p) THEN Fail(g, "failed to write file")
         ELSE Ok(WriteData(g, p, d)))

\* TemplateService.processAndCopyFile(sourcePath, targetPath, relPath, data)
processAndCopyFile(f, sourcePath, targetPath, aiAssistant) ==
    LET processed == ProcessWithName(f[sourcePath].data, aiAssistant) IN
    IF ~shouldProcessAsTemplate(sourcePath) THEN copyFile(f, sourcePath, targetPath, "none")
    ELSE IF processed.err # "none" THEN Fail(f, "failed to process template")
    ELSE WriteFile(f, targetPath, processed.out)

\* the walk function of processTemplateDirectory on the entry path
ProcessEntry(f, path, sourceDir, targetDir, aiAssistant) ==
    LET targetPath == Join(targetDir, SubSeq(path, Len(sourceDir) + 1, Len(path))) IN
    IF path = sourceDir THEN Ok(f)
    ELSE IF IsDir(f, path) THEN CreateDirectory(f, targetPath)
    ELSE processAndCopyFile(f, path, targetPath, aiAssistant)

RECURSIVE ProcessWalk(_, _, _, _, _, _)
ProcessWalk(f, list, i, sourceDir, targetDir, aiAssistant) ==
    IF i > Len(list) THEN Ok(f)
    ELSE Then(ProcessEntry(f, list[i], sourceDir, targetDir, aiAssistant),
              LAMBDA g : ProcessWalk(g, list, i + 1, sourceDir, targetDir, aiAssistant))

\* TemplateService.processTemplateDirectory(sourceDir, targetDir, aiAssistant)
processTemplateDirectory(f, sourceDir, targetDir, aiAssistant) ==
    IF ~Exists(f, sourceDir) THEN Fail(f, "error walking directory")
    ELSE With(WalkList(f, sourceDir), LAMBDA list :
              ProcessWalk(f, list, 1, sourceDir, targetDir, aiAssistant))

\* the directories of list[i..] that exist in the cache, processed in turn
RECURSIVE CopyDirs(_, _, _, _, _, _)
CopyDirs(f, list, i, cacheRoot, agentTargetPath, aiAssistant) ==
    IF i > Len(list) THEN Ok(f)
    ELSE Then(IF IsDir(f, Join(cacheRoot, list[i]))
              THEN processTemplateDirectory(f, Join(cacheRoot, list[i]),
                                            Join(agentTargetPath, list[i]), aiAssistant)
              ELSE Ok(f),
              LAMBDA g : CopyDirs(g, list, i + 1, cacheRoot, agentTargetPath, aiAssistant))

\* TemplateService.copyAgentDirectoriesWithScan(cacheRoot, agentTargetPath, aiAssistant)
copyAgentDirectoriesWithScan(f, cacheRoot, agentTargetPath, aiAssistant) ==
    IF ~IsDir(f, cacheRoot) THEN Fail(f, "failed to list cache directories")
    ELSE With(SortPaths({<<nm>> : nm \in ReadDir(f, cacheRoot) \ {"memory", "content"}}),
              LAMBDA list : CopyDirs(f, list, 1, cacheRoot, agentTargetPath, aiAssistant))

\* TemplateService.copyAgentDirectories(cacheRoot, targetPath, aiAssistant):
\* filepath.Dir of every manifest key, without ".", "memory" and "content"
copyAgentDirectories(f, cacheRoot, targetPath, aiAssistant) ==
    LET agentTargetPath == Append(targetPath, "." \o aiAssistant)
        read == readManifestFromPath(f, cacheRoot)
        dirs == {Parent(rel) : rel \in DOMAIN read.manifest.Templates}
                    \ {<<>>, <<"memory">>, <<"content">>}
    IN IF read.err # "none"
       THEN copyAgentDirectoriesWithScan(f, cacheRoot, agentTargetPath, aiAssistant)
       ELSE With(SortPaths(dirs), LAMBDA list :
                 CopyDirs(f, list, 1, cacheRoot, agentTargetPath, aiAssistant))

\* TemplateService.CopyMemoryDirectly(cacheRoot, targetPath, aiAssistant)
CopyMemoryDirectly(f, cacheRoot, targetPath, aiAssistant) ==
    IF ~IsDir(f, Append(cacheRoot, "memory")) THEN Ok(f)
    ELSE processTemplateDirectory(f, Append(cacheRoot, "memory"),
                                  Append(targetPath, "memory"), aiAssistant)

\* TemplateService.CopyMemoryToProject(cacheRoot, targetPath, aiAssistant)
CopyMemoryToProject(f, cacheRoot, targetPath, aiAssistant) ==
    LET read == readManifestFromPath(f, cacheRoot) IN
    IF read.err # "none" THEN CopyMemoryDirectly(f, cacheRoot, targetPath, aiAssistant)
    ELSE IF ~\E rel \in DOMAIN read.manifest.Templates : Len(rel) > 1 /\ rel[1] = "memory"
    THEN Ok(f)
    ELSE IF ~IsDir(f, Append(cacheRoot, "memory"))
    THEN Fail(f, "manifest indicates memory files exist but directory is missing")
    ELSE processTemplateDirectory(f, Append(cacheRoot, "memory"),
                                  Append(targetPath, "memory"), aiAssistant)

\* TemplateService.extractFromCache(aiAssistant, targetPath, isHere)
extractFromCache(f, homeOK, aiAssistant, targetPath, isHere) ==
    LET read == ReadManifest(f, homeOK) IN
    IF read.err # "none" THEN Fail(f, "failed to read cache manifest")
    ELSE IF ~isVersionCompatible(read.manifest.SpecKitVersion, GetSpecKitVersion)
    THEN Fail(f, "cache version mismatch")
    ELSE IF \E v \in ValidateCache(f, homeOK, read.manifest) : v.err # "none"
    THEN Fail(f, "cache validation failed")
    ELSE ThenAs(IF isHere THEN Ok(f) ELSE CreateDirectory(f, targetPath),
                "failed to create target directory", LAMBDA g :
         ThenAs(copyAgentDirectories(g, CacheRoot, targetPath, aiAssistant),
                "failed to copy hidden folders", LAMBDA h :
         ThenAs(CopyMemoryToProject(h, CacheRoot, targetPath, aiAssistant),
                "failed to copy memory folder", LAMBDA m : Ok(m))))

\* ------------------------------------------------ structure classifier
\* the names that start with a dot
DotNames == {"..", ".claude", ".codex", ".copilot", ".gemini", ".manifest.json", ".spec-kit"}

\* the directory names applyUnifiedTemplateExtraction takes for the unified
\* structure, and those it takes for agent folders
UnifiedNames == {"commands", "templates", "tools"}
AgentFolderNames == {".claude", ".codex", ".gemini"}

\* the entries of dir, in the order of ListDirectoryContents
ListDirectoryContents(f, dir) == SortPaths({<<nm>> : nm \in ReadDir(f, dir)})

\* applyUnifiedTemplateExtraction: the two flags of its loop over the entries
hasUnifiedStructure(f, extractedPath) ==
    \E nm \in UnifiedNames : IsDir(f, Append(extractedPath, nm))

hasAgentFolders(f, extractedPath) ==
    \E nm \in AgentFolderNames : IsDir(f, Append(extractedPath, nm))

\* the branch applyUnifiedTemplateExtraction takes
Shape(f, extractedPath) ==
    IF hasAgentFolders(f, extractedPath) THEN "Mixed"
    ELSE IF hasUnifiedStructure(f, extractedPath) THEN "Unified"
    ELSE "Legacy"

\* FilesystemService.CopyFile(src, dest)
CopyFile(f, src, dest) ==
    IF ~Exists(f, src) THEN Fail(f, "failed to stat source file")
    ELSE copyFile(f, src, dest, "none")

\* extractFromUnifiedStructure: the loop over the entries list[i..]
RECURSIVE UnifiedDirs(_, _, _, _, _)
UnifiedDirs(f, list, i, unifiedPath, agentTargetPath) ==
    IF i > Len(list) THEN Ok(f)
    ELSE Then(IF IsDir(f, Join(unifiedPath, list[i])) /\ list[i] # <<"memory">>
              THEN ThenAs(MergeDirectories(f, Join(unifiedPath, list[i]),
                                           Join(agentTargetPath, list[i]), NoFault),
                          "failed to copy directory to agent folder", LAMBDA g : Ok(g))
              ELSE Ok(f),
              LAMBDA g : UnifiedDirs(g, list, i + 1, unifiedPath, agentTargetPath))

\* the copy of the memory directory to the project root, by
\* extractFromUnifiedStructure and extractFromMixedStructure
MemoryToRoot(f, sourcePath, targetPath) ==
    IF ~IsDir(f, Append(sourcePath, "memory")) THEN Ok(f)
    ELSE ThenAs(MergeDirectories(f, Append(sourcePath, "memory"),
                                 Append(targetPath, "memory"), NoFault),
                "failed to copy memory directory", LAMBDA g : Ok(g))

\* an extractFromUnifiedStructure without the copy of the memory directory
extractFromUnifiedStructureNoMemory(f, unifiedPath, targetPath, aiAssistant) ==
    With(ListDirectoryContents(f, unifiedPath), LAMBDA list :
         UnifiedDirs(f, list, 1, unifiedPath, Append(targetPath, "." \o aiAssistant)))

\* TemplateService.extractFromUnifiedStructure(unifiedPath, targetPath, aiAssistant)
extractFromUnifiedStructure(f, unifiedPath, targetPath, aiAssistant) ==
    IF ~IsDir(f, unifiedPath) THEN Fail(f, "failed to list unified structure contents")
    ELSE With(ListDirectoryContents(f, unifiedPath), LAMBDA list :
              Then(UnifiedDirs(f, list, 1, unifiedPath, Append(targetPath, "." \o aiAssistant)),
                   LAMBDA g : MemoryToRoot(g, unifiedPath, targetPath)))

\* extractFromMixedStructure: the loop that moves the unified structure
\* directories of list[i..] to the agent folder
RECURSIVE MixedDirs(_, _, _, _, _, _)
MixedDirs(f, list, i, extractedPath, agentTargetPath, aiAssistant) ==
    IF i > Len(list) THEN Ok(f)
    ELSE Then(IF /\ IsDir(f, Join(extractedPath, list[i]))
                 /\ list[i][1] \notin DotNames
                 /\ list[i] # <<"memory">>
              THEN ThenAs(processTemplateDirectory(f, Join(extractedPath, list[i]),
                                                   Join(agentTargetPath, list[i]), aiAssistant),
                          "failed to process unified directory templates to agent folder",
                          LAMBDA g : Ok(g))
              ELSE Ok(f),
              LAMBDA g : MixedDirs(g, list, i + 1, extractedPath, agentTargetPath, aiAssistant))

\* extractFromMixedStructure: the loop that copies the other entries of
\* list[i..] to the target
RECURSIVE MixedOthers(_, _, _, _, _, _)
MixedOthers(f, list, i, extractedPath, targetPath, aiAssistant) ==
    IF i > Len(list) THEN Ok(f)
    ELSE Then(IF \/ ~IsDir(f, Join(extractedPath, list[i]))
                 \/ list[i][1] \notin ({"." \o aiAssistant, "memory"} \cup UnifiedNames)
              THEN IF IsDir(f, Join(extractedPath, list[i]))
                   THEN ThenAs(MergeDirectories(f, Join(extractedPath, list[i]),
                                                Join(targetPath, list[i]), NoFault),
                               "failed to copy directory", LAMBDA g : Ok(g))
                   ELSE ThenAs(CopyFile(f, Join(extractedPath, list[i]),
                                        Join(targetPath, list[i])),
                               "failed to copy file", LAMBDA g : Ok(g))
              ELSE Ok(f),
              LAMBDA g : MixedOthers(g, list, i + 1, extractedPath, targetPath, aiAssistant))

\* extractFromMixedStructure: the copy of the folder of the requested agent
MixedAgentFolder(f, extractedPath, targetPath, aiAssistant) ==
    IF ~IsDir(f, Append(extractedPath, "." \o aiAssistant)) THEN Ok(f)
    ELSE ThenAs(processTemplateDirectory(f, Append(extractedPath, "." \o aiAssistant),
                                         Append(targetPath, "." \o aiAssistant), aiAssistant),
                "failed to process agent folder templates", LAMBDA g : Ok(g))

\* an extractFromMixedStructure that leaves the unified structure directories
\* where they are
extractFromMixedStructureAgentOnly(f, extractedPath, targetPath, aiAssistant, hasUnified) ==
    IF ~IsDir(f, extractedPath) THEN Fail(f, "failed to list mixed structure contents")
    ELSE With(ListDirectoryContents(f, extractedPath), LAMBDA list :
         Then(MixedAgentFolder(f, extractedPath, targetPath, aiAssistant), LAMBDA a :
         Then(MemoryToRoot(a, extractedPath, targetPath), LAMBDA m :
              MixedOthers(m, list, 1, extractedPath, targetPath, aiAssistant))))

\* TemplateService.extractFromMixedStructure(extractedPath, targetPath,
\* aiAssistant, hasUnifiedStructure)
extractFromMixedStructure(f, extractedPath, targetPath, aiAssistant, hasUnified) ==
    IF ~IsDir(f, extractedPath) THEN Fail(f, "failed to list mixed structure contents")
    ELSE With(ListDirectoryContents(f, extractedPath), LAMBDA list :
         Then(MixedAgentFolder(f, extractedPath, targetPath, aiAssistant), LAMBDA a :
         Then(IF hasUnified
              THEN MixedDirs(a, list, 1, extractedPath,
                             Append(targetPath, "." \o aiAssistant), aiAssistant)
              ELSE Ok(a), LAMBDA u :
         Then(MemoryToRoot(u, extractedPath, targetPath), LAMBDA m :
              MixedOthers(m, list, 1, extractedPath, targetPath, aiAssistant)))))

\* TemplateService.applyUnifiedTemplateExtraction(extractedPath, targetPath,
\* isHere, aiAssistant)
applyUnifiedTemplateExtraction(f, extractedPath, targetPath, aiAssistant) ==
    IF ~IsDir(f, extractedPath) THEN Fail(f, "failed to list extracted directory contents")
    ELSE IF Shape(f, extractedPath) = "Mixed"
    THEN extractFromMixedStructure(f, extractedPath, targetPath, aiAssistant,
                                   hasUnifiedStructure(f, extractedPath))
    ELSE IF Shape(f, extractedPath) = "Unified"
    THEN extractFromUnifiedStructure(f, extractedPath, targetPath, aiAssistant)
    ELSE MergeDirectories(f, extractedPath, targetPath, NoFault)

\* TemplateService.extractTemplate after its ExtractZIPWithFlatten: the
\* creation of the target directory and the placement of the extracted tree
extractTemplatePlacement(f, extractedPath, targetPath, isHere, aiAssistant) ==
    ThenAs(IF isHere THEN Ok(f) ELSE CreateDirectory(f, targetPath),
           "failed to create target directory", LAMBDA g :
           applyUnifiedTemplateExtraction(g, extractedPath, targetPath, aiAssistant))

\* ------------------------------------------------------------------- sync
(***************************************************************************)
(* A release is what the network gives one sync: ok (GetLatestRelease      *)
(* answers), asset (the release has the cache template asset), download    *)
(* (DownloadAsset succeeds) and the archive that is downloaded.            *)
(***************************************************************************)
\* GetLatestRelease, the search of the asset and its download into tempDir
downloadCacheTemplate(f, tempDir, release) ==
    IF ~release.ok THEN Fail(f, "failed to get latest release")
    ELSE IF ~release.asset THEN Fail(f, "cache template asset not found")
    ELSE IF ~release.download
    THEN Fail(WriteData(f, Append(tempDir, AssetName), Bytes(0)),
              "failed to download template asset")
    ELSE Ok(WriteData(f, Append(tempDir, AssetName), [zip |-> release.archive]))

\* TemplateService.autoSyncTemplates(); the deferred RemoveDirectory(tempDir)
\* runs on every return
autoSyncTemplates(f, homeOK, release) ==
    Then(CreateDirectory(f, TmpAutoSync), LAMBDA t :
    Cleanup(
        Then(downloadCacheTemplate(t, TmpAutoSync, release), LAMBDA d :
        ThenAs(ExtractZIPWithFlatten(d, release.archive, Append(TmpAutoSync, "extracted"), NoFault),
               "failed to extract template ZIP", LAMBDA x :
        IF ResolveRoot(homeOK).err # "none" THEN Fail(x, "failed to resolve cache root")
        ELSE ThenAs(CreateDirectory(x, ResolveRoot(homeOK).root),
                    "failed to create cache directory", LAMBDA m :
             ThenAs(MergeDirectories(m, Append(TmpAutoSync, "extracted"),
                                     ResolveRoot(homeOK).root, NoFault),
                    "failed to copy templates to cache", LAMBDA c : Ok(c))))),
        TmpAutoSync))

\* syncFromDownloadedFiles(filesystem, template, tempDir, sourceDir, cacheRoot)
syncFromDownloadedFiles(f, archive, sourceDir, cacheRoot) ==
    ThenAs(ExtractZIPWithFlatten(f, archive, sourceDir, NoFault),
           "failed to extract cache template", LAMBDA x :
           MergeDirectories(x, sourceDir, cacheRoot, NoFault))

\* the outcome r of runTemplatesSync with its verdict: upToDate tells that the
\* command stopped at "Cache is already up to date"
Verdict(r, upToDate) == Only({[fs |-> x.fs, err |-> x.err, upToDate |-> upToDate] : x \in {r}})

\* runTemplatesSync after the download: the check of the cached manifest,
\* the sync and the reading of the synced manifest
syncUnlessUpToDate(f, homeOK, release, forceSync) ==
    LET read == ReadManifest(f, homeOK) IN
    IF ResolveRoot(homeOK).err # "none"
    THEN Verdict(Fail(f, "failed to resolve cache root"), FALSE)
    ELSE IF ~forceSync /\ read.err = "none" /\ IsVersionMatch(read.manifest, GetSpecKitVersion)
    THEN Verdict(Ok(f), TRUE)
    ELSE Verdict(Then(syncFromDownloadedFiles(f, release.archive, Append(TmpSync, "extracted"),
                                              ResolveRoot(homeOK).root), LAMBDA g :
                      IF ReadManifest(g, homeOK).err # "none"
                      THEN Fail(g, "failed to read synced manifest")
                      ELSE Ok(g)),
                 FALSE)

\* runTemplatesSync after downloadCacheTemplate ended in got
AfterDownload(got, homeOK, release, forceSync) ==
    Only({IF x.err # "none" THEN Verdict(x, FALSE)
          ELSE syncUnlessUpToDate(x.fs, homeOK, release, forceSync) : x \in {got}})

\* "defer filesystem.RemoveDirectory(tempDir)" of runTemplatesSync
RemoveTemp(r) ==
    Only({[fs |-> RemoveDirectory(x.fs, TmpSync), err |-> x.err, upToDate |-> x.upToDate] :
             x \in {r}})

\* runTemplatesSync(cmd, args) of "specify templates sync"; upToDate in the
\* outcome as in Verdict
runTemplatesSync(f, homeOK, release, forceSync) ==
    IF CreateDirectory(f, TmpSync).err # "none"
    THEN Verdict(CreateDirectory(f, TmpSync), FALSE)
    ELSE RemoveTemp(AfterDownload(downloadCacheTemplate(CreateDirectory(f, TmpSync).fs,
                                                        TmpSync, release),
                                  homeOK, release, forceSync))

\* where DownloadAndExtract goes after the extraction from the current cache
AfterCacheHit(err) == IF err = "none" THEN "SUCCESS" ELSE "SYNCING"

\* where DownloadAndExtract goes after autoSyncTemplates
AfterSync(err) == IF err = "none" THEN "RETRY" ELSE "FAILURE"

\* a resolver that syncs again when the extraction after the sync fails
AfterRetryAgain(err) == IF err = "none" THEN "SUCCESS" ELSE "SYNCING"

\* where DownloadAndExtract goes after the extraction from the synced cache
AfterRetry(err) == IF err = "none" THEN "SUCCESS" ELSE "FAILURE"

\* ------------------------------------------------------------------ state
VARIABLES
    agentsFile,   \* content of AGENTS.md on disk, or Absent
    tmplFile,     \* content of templates/content/agents-template.md, or Absent
    origFile,     \* AGENTS.md before the first call
    prevFile,     \* AGENTS.md before the latest call
    docErr,       \* result of the latest call: "" before any, "none", or the error
    docCreated,   \* the "created" result of the latest call
    calls,        \* number of CreateOrUpdateAgentsMD calls made
    fs,           \* the filesystem
    fs0,          \* the filesystem before the latest operation
    call,         \* the latest filesystem operation and its arguments
    res,          \* the error the latest filesystem operation returned, or "none"
    pc,           \* the state of the cache resolver of the running DownloadAndExtract
    steps,        \* the resolver states left so far, each with the error it ended in
    cache,        \* Processor.cache: the compiled template stored under each key
    mutex,        \* Processor.mutex: the goroutine that holds it, or 0
    gs,           \* the goroutines that call the Processor, each with where it is
    branches      \* the branches of the git repository

docVars == <<agentsFile, tmplFile, origFile, prevFile, docErr, docCreated, calls>>

fsVars == <<fs, fs0, call, res>>

resolverVars == <<pc, steps>>

procVars == <<cache, mutex, gs>>

gitVars == <<branches>>

vars == <<agentsFile, tmplFile, origFile, prevFile, docErr, docCreated, calls,
          fs, fs0, call, res, pc, steps, cache, mutex, gs, branches>>

NoCall == [op |-> "none"]

\* no DownloadAndExtract in play
ResolverIdle ==
    /\ pc = "IDLE"
    /\ steps = <<>>

\* no Processor in play
ProcIdle ==
    /\ cache = <<>>
    /\ mutex = 0
    /\ gs = <<>>

\* no git repository in play
GitIdle == branches = {}

\* no document in play
DocIdle ==
    /\ agentsFile = Absent
    /\ tmplFile = Absent
    /\ origFile = Absent
    /\ prevFile = Absent
    /\ docErr = ""
    /\ docCreated = FALSE
    /\ calls = 0

\* no filesystem in play
FsIdle ==
    /\ fs = <<>>
    /\ fs0 = <<>>
    /\ call = NoCall
    /\ res = ""

DocInit ==
    /\ FsIdle
    /\ ResolverIdle
    /\ ProcIdle
    /\ GitIdle
    /\ agentsFile \in {Absent} \cup TextsUpTo(MaxDocLen, Tokens)
    /\ tmplFile \in {Absent} \cup TextsUpTo(MaxTmplLen, TmplTokens)
    /\ origFile = agentsFile
    /\ prevFile = agentsFile
    /\ docErr = ""
    /\ docCreated = FALSE
    /\ calls = 0

\* CreateOrUpdateAgentsMD(aiAssistant, projectRoot) on an existing project root
CreateOrUpdateAgentsMD ==
    /\ calls < MaxCalls
    /\ calls' = calls + 1
    /\ prevFile' = agentsFile
    /\ UNCHANGED <<tmplFile, origFile>>
    /\ UNCHANGED <<fsVars, resolverVars, procVars, gitVars>>
    /\ IF agentsFile = Absent
       THEN /\ agentsFile' = getAgentsMDTemplate(tmplFile)
            /\ docCreated' = TRUE
            /\ docErr' = "none"
       ELSE /\ docCreated' = FALSE
            /\ IF MalformedKind(agentsFile) # "none"
               THEN /\ docErr' = MalformedKind(agentsFile)
                    /\ agentsFile' = agentsFile
               ELSE /\ docErr' = "none"
                    /\ agentsFile' =
                         replaceDelimitedSection(agentsFile, getSpecifySectionContent(tmplFile))

DocNext == CreateOrUpdateAgentsMD

SpecDoc == DocInit /\ [][DocNext]_vars

\* ------------------------------------------------------ directory merger
\* the trees a source or destination directory is drawn from
RelPaths == {<<"a">>, <<"a", "b">>, <<"c">>}

Nodes == {DirNode} \cup {FileNode(Bytes(n)) : n \in 1..MaxContent}

\* a set of nodes is a tree when every node lies in a directory of the set
IsTree(t) == \A q \in DOMAIN t : Len(q) > 1 => (Parent(q) \in DOMAIN t /\ t[Parent(q)] = DirNode)

RelTrees == {t \in UNION {[S -> Nodes] : S \in SUBSET RelPaths} : IsTree(t)}

\* the tree t placed at the directory root
Mount(root, t) ==
    [q \in {SubSeq(root, 1, i) : i \in 1..Len(root)} \cup {root \o r : r \in DOMAIN t} |->
        IF Len(q) <= Len(root) THEN DirNode ELSE t[SubSeq(q, Len(root) + 1, Len(q))]]

SrcRoot == <<"src">>
DstRoot == <<"dst">>

MergeInit ==
    /\ DocIdle
    /\ ProcIdle
    /\ GitIdle
    /\ ResolverIdle
    /\ \E s \in RelTrees, d \in RelTrees, sThere \in BOOLEAN, dThere \in BOOLEAN :
          fs = (IF sThere THEN Mount(SrcRoot, s) ELSE <<>>)
                 @@ (IF dThere THEN Mount(DstRoot, d) ELSE <<>>)
    /\ fs0 = fs
    /\ call = NoCall
    /\ res = ""

\* the I/O faults a walk of n entries can meet
Faults(n) == {NoFault} \cup [at : 1..n, kind : {"open", "copy"}, phase : {"merge"}]

\* a call of MergeDirectories(src, dst), possibly meeting an I/O fault
MergeDirectoriesCall ==
    /\ call = NoCall
    /\ \E fault \in Faults(Len(WalkList(fs, SrcRoot))) :
          \E out \in {MergeDirectories(fs, SrcRoot, DstRoot, fault)} :
          /\ fs' = out.fs
          /\ res' = out.err
          /\ call' = [op |-> "MergeDirectories", fault |-> fault]
    /\ fs0' = fs
    /\ UNCHANGED <<docVars, procVars, gitVars, resolverVars>>

MergeNext == MergeDirectoriesCall

SpecMerge == MergeInit /\ [][MergeNext]_vars

\* ---------------------------------------------------------------- claims
\* exactly one opening marker followed by exactly one closing marker
OnePair(s) ==
    /\ Count(s, "O") = 1
    /\ Count(s, "C") = 1
    /\ IndexFrom(s, "O", 1) < IndexFrom(s, "C", 1)

WellFormed(s) ==
    /\ s # Absent
    /\ \/ (Count(s, "O") = 0 /\ Count(s, "C") = 0)
       \/ OnePair(s)

\* the error of a document whose markers are malformed
IsMalformedError(e) == e \in {"multiple", "mismatched"}

\* C1: merging a well-formed document and then merging the result again with
\* the same generated block leaves the content of the first merge unchanged.
C1_Idempotent ==
    (calls = 2 /\ WellFormed(origFile)) => agentsFile = prevFile

\* C2: when the document held exactly one well-formed region before the call,
\* the text before its opening marker and the text after its closing marker
\* are the same before and after the merge.
C2_OutsidePreserved ==
    (calls >= 1 /\ prevFile # Absent /\ OnePair(prevFile)) =>
        LET i == IndexFrom(prevFile, "O", 1)
            j == IndexFrom(prevFile, "C", 1)
            tail == Len(prevFile) - j
        IN /\ docErr = "none"
           /\ Len(agentsFile) >= (i - 1) + tail
           /\ SubSeq(agentsFile, 1, i - 1) = SubSeq(prevFile, 1, i - 1)
           /\ SubSeq(agentsFile, Len(agentsFile) - tail + 1, Len(agentsFile))
                = SubSeq(prevFile, j + 1, Len(prevFile))

\* a merge replaced the region of a document that has text after the region
C2_Witness ==
    /\ calls = 1
    /\ prevFile # Absent
    /\ OnePair(prevFile)
    /\ IndexFrom(prevFile, "C", 1) < Len(prevFile)
    /\ docErr = "none"
    /\ agentsFile # prevFile

\* C3: a merge on a document with more than one opening marker, more than one
\* closing marker or unequal marker counts fails with the malformed-section
\* error and leaves the file as it was.
C3_MalformedRejected ==
    (/\ calls >= 1
     /\ prevFile # Absent
     /\ \/ Count(prevFile, "O") > 1
        \/ Count(prevFile, "C") > 1
        \/ Count(prevFile, "O") # Count(prevFile, "C")) =>
        (IsMalformedError(docErr) /\ agentsFile = prevFile)

\* a call was made on a document with a lone opening marker and was refused
C3_Witness ==
    /\ calls = 1
    /\ prevFile # Absent
    /\ Count(prevFile, "O") = 1
    /\ Count(prevFile, "C") = 0
    /\ IsMalformedError(docErr)
\* --------------------------------------------------- archive extraction
\* the entries an archive is drawn from
ZipEntries ==
    {[name |-> <<"a">>, abs |-> FALSE, dir |-> FALSE, data |-> Bytes(1)],
     [name |-> <<"a", "b">>, abs |-> FALSE, dir |-> FALSE, data |-> Bytes(1)],
     [name |-> <<"c">>, abs |-> FALSE, dir |-> FALSE, data |-> Bytes(2)],
     [name |-> <<"..", "c">>, abs |-> FALSE, dir |-> FALSE, data |-> Bytes(2)],
     [name |-> <<"a", "..", "c">>, abs |-> FALSE, dir |-> FALSE, data |-> Bytes(2)],
     [name |-> <<"etc", "c">>, abs |-> TRUE, dir |-> FALSE, data |-> Bytes(2)]}

RECURSIVE SeqsOfLen(_, _)
SeqsOfLen(k, S) ==
    IF k = 0 THEN {<<>>} ELSE {Append(t, x) : t \in SeqsOfLen(k - 1, S), x \in S}

Archives == {[ok |-> TRUE, entries |-> es] : es \in UNION {SeqsOfLen(k, ZipEntries) : k \in 0..MaxEntries}}
                \cup {[ok |-> FALSE, entries |-> <<>>]}

\* the trees the destination of an extraction is drawn from
ZipDstTrees == {t \in RelTrees : \A q \in DOMAIN t : t[q] \in {DirNode, FileNode(Bytes(1))}}

ZipInit ==
    /\ DocIdle
    /\ ProcIdle
    /\ GitIdle
    /\ ResolverIdle
    /\ \E d \in ZipDstTrees, dThere \in BOOLEAN :
          fs = Mount(<<"tmp">>, <<>>) @@ (IF dThere THEN Mount(DstRoot, d) ELSE <<>>)
    /\ fs0 = fs
    /\ call = NoCall
    /\ res = ""

\* a call of ExtractZIP(zip, dst)
ExtractZIPCall ==
    /\ call = NoCall
    /\ \E archive \in Archives :
          \E out \in {ExtractZIP(fs, archive, DstRoot, NoFault)} :
          /\ fs' = out.fs
          /\ res' = out.err
          /\ call' = [op |-> "ExtractZIP", archive |-> archive]
    /\ fs0' = fs
    /\ UNCHANGED <<docVars, procVars, gitVars, resolverVars>>

\* a call of ExtractZIPWithFlatten(zip, dst)
ExtractZIPWithFlattenCall ==
    /\ call = NoCall
    /\ \E archive \in Archives :
          \E out \in {ExtractZIPWithFlatten(fs, archive, DstRoot, NoFault)} :
          /\ fs' = out.fs
          /\ res' = out.err
          /\ call' = [op |-> "ExtractZIPWithFlatten", archive |-> archive]
    /\ fs0' = fs
    /\ UNCHANGED <<docVars, procVars, gitVars, resolverVars>>

ZipNext == ExtractZIPCall \/ ExtractZIPWithFlattenCall

SpecZip == ZipInit /\ [][ZipNext]_vars

\* an entry whose path has a parent-directory name or starts at the root
BadEntry(e) == e.abs \/ ".." \in Names(e.name)

HasBadEntry(archive) == \E i \in 1..Len(archive.entries) : BadEntry(archive.entries[i])

FirstBadEntry(archive) ==
    CHOOSE i \in 1..Len(archive.entries) :
        BadEntry(archive.entries[i]) /\ \A k \in 1..(i - 1) : ~BadEntry(archive.entries[k])

\* the files under the destination that are new or hold other data than before
WrittenFiles == {q \in DOMAIN fs : IsPrefix(DstRoot, q) /\ IsFile(fs, q) /\ (q \notin DOMAIN fs0 \/ fs0[q] # fs[q])}

\* C7 as stated: an archive with an offending entry makes the extraction fail
\* with no file written to the destination, wherever the entry sits.
C7_NothingWritten ==
    (call.op \in {"ExtractZIP", "ExtractZIPWithFlatten"} /\ HasBadEntry(call.archive)) =>
        (res # "none" /\ WrittenFiles = {})

\* C7 amended: an archive with an offending entry makes the extraction fail
\* wherever the entry sits; ExtractZIPWithFlatten then writes no file to its
\* destination, and ExtractZIP writes only entries that precede the first
\* offending entry.
C7_FailsClosed ==
    (call.op \in {"ExtractZIP", "ExtractZIPWithFlatten"} /\ HasBadEntry(call.archive)) =>
        /\ res # "none"
        /\ call.op = "ExtractZIPWithFlatten" => WrittenFiles = {}
        /\ call.op = "ExtractZIP" =>
              \A q \in WrittenFiles :
                  \E k \in 1..(FirstBadEntry(call.archive) - 1) :
                      q = DstRoot \o call.archive.entries[k].name

\* ExtractZIPWithFlatten refused an archive whose offending entry comes after
\* a valid one
C7_Witness ==
    /\ call.op = "ExtractZIPWithFlatten"
    /\ HasBadEntry(call.archive)
    /\ FirstBadEntry(call.archive) > 1
    /\ res # "none"

\* C6: after a run of the directory merger, complete or aborted, nothing that
\* was in the destination is gone, and every destination file whose relative
\* path is absent from the source holds the data it held before.
C6_NoDelete ==
    call.op = "MergeDirectories" =>
        \A q \in DOMAIN fs0 :
            IsPrefix(DstRoot, q) =>
                /\ q \in DOMAIN fs
                /\ (IsFile(fs0, q) /\ ~Exists(fs0, SrcRoot \o SubSeq(q, 2, Len(q)))) => fs[q] = fs0[q]

\* a merge aborted part-way, after changing the destination, which held a
\* file the source does not have
C6_Witness ==
    /\ call.op = "MergeDirectories"
    /\ res # "none"
    /\ fs # fs0
    /\ \E q \in DOMAIN fs0 :
          /\ IsPrefix(DstRoot, q)
          /\ IsFile(fs0, q)
          /\ ~Exists(fs0, SrcRoot \o SubSeq(q, 2, Len(q)))

\* ------------------------------------------------------- cache resolution
NoData == [absent |-> TRUE]

\* the file at path with data d, under the directories on the way to it
Opt(path, d) ==
    IF d = NoData THEN <<>>
    ELSE [q \in {SubSeq(path, 1, i) : i \in 1..Len(path)} |->
             IF q = path THEN FileNode(d) ELSE DirNode]

\* the hash a manifest records for the file rel, none when h is NoData
Entry(rel, h) == IF h = NoData THEN <<>> ELSE (rel :> h)

XFile == <<"commands", "x.md">>
ZFile == <<"memory", "z.md">>

\* the manifests a cache on disk is drawn from: none, one that is not JSON,
\* and manifests of two versions listing x.md and z.md or not
ManifestStates ==
    {NoData, Bytes(1)} \cup
    {[SpecKitVersion |-> v, Templates |-> Entry(XFile, hx) @@ Entry(ZFile, hz)] :
        v \in {"dev", "1.0.0"},
        hx \in {NoData, CalculateFileHash(Bytes(1))},
        hz \in {NoData, CalculateFileHash(Bytes(1))}}

\* the content of the cache root a run starts from
CacheTrees ==
    {Opt(<<ManifestName>>, m) @@ Opt(<<"README.md">>, r) @@ Opt(XFile, x) @@ Opt(ZFile, z) :
        m \in ManifestStates,
        r \in {NoData, Bytes(1)},
        x \in {NoData, Bytes(1), Bytes(2)},
        z \in {NoData, Bytes(1)}}

\* the project directory a run starts from: absent, a directory, or a file
\* in its place
ProjectDir == <<"proj">>
ProjectStates == {<<>>, ProjectDir :> DirNode, ProjectDir :> FileNode(Bytes(1))}

FileEntry(name, d) == [name |-> name, abs |-> FALSE, dir |-> FALSE, data |-> d]

\* the cache template archive: under the top-level directory wrapper, a
\* manifest of its templates when withManifest, README.md, x.md and z.md
CacheArchive(wrapper, withManifest, x) ==
    [ok |-> TRUE,
     entries |->
        (IF withManifest
         THEN <<FileEntry(Append(wrapper, ManifestName),
                          [SpecKitVersion |-> "1.0.0",
                           Templates |-> Entry(XFile, CalculateFileHash(x))
                                           @@ Entry(ZFile, CalculateFileHash(Bytes(1)))])>>
         ELSE <<>>)
        \o <<FileEntry(Append(wrapper, "README.md"), Bytes(1)),
             FileEntry(wrapper \o XFile, x),
             FileEntry(wrapper \o ZFile, Bytes(1))>>]

NoArchive == [ok |-> FALSE, entries |-> <<>>]

TraversalArchive ==
    [ok |-> TRUE,
     entries |-> <<FileEntry(<<"README.md">>, Bytes(1)), FileEntry(<<"..", "x.md">>, Bytes(1))>>]

\* GetLatestRelease does not answer
NoRelease == [ok |-> FALSE, asset |-> FALSE, download |-> FALSE, archive |-> NoArchive]

Releases ==
    {NoRelease,
     [ok |-> TRUE, asset |-> FALSE, download |-> FALSE, archive |-> NoArchive],
     [ok |-> TRUE, asset |-> TRUE, download |-> FALSE, archive |-> NoArchive]}
    \cup {[ok |-> TRUE, asset |-> TRUE, download |-> TRUE, archive |-> a] :
            a \in {NoArchive, TraversalArchive}
                  \cup {CacheArchive(w, m, x) : w \in {<<>>, <<"kit">>}, m \in BOOLEAN,
                                                 x \in {Bytes(2), Action("assistant")}}}

Assistants == {"claude", "codex"}

CacheInit ==
    /\ DocIdle
    /\ ProcIdle
    /\ GitIdle
    /\ ResolverIdle
    /\ \E c \in CacheTrees, cThere \in BOOLEAN, prj \in ProjectStates :
          fs = Mount(<<"tmp">>, <<>>) @@ Mount(<<"home">>, <<>>) @@ prj
                 @@ (IF cThere THEN Mount(CacheRoot, c) ELSE <<>>)
    /\ fs0 = fs
    /\ call = NoCall
    /\ res = ""

\* DownloadAndExtract up to its choice between the cache and the sync
DownloadAndExtractStart ==
    /\ call = NoCall
    /\ pc = "IDLE"
    /\ \E aiAssistant \in Assistants, isHere \in BOOLEAN, homeOK \in BOOLEAN :
          LET root == ResolveRoot(homeOK)
              useCache == root.err = "none" /\ ~isCacheEmpty(fs, root.root)
          IN /\ call' = [op |-> "DownloadAndExtract", aiAssistant |-> aiAssistant,
                         isHere |-> isHere, homeOK |-> homeOK]
             /\ pc' = IF useCache THEN "CACHE_HIT" ELSE "SYNCING"
    /\ fs0' = fs
    /\ UNCHANGED <<fs, res, steps, docVars, procVars, gitVars>>

\* the extraction from the current cache
CacheHit ==
    /\ pc = "CACHE_HIT"
    /\ \E out \in {extractFromCache(fs, call.homeOK, call.aiAssistant, ProjectDir, call.isHere)} :
       /\ fs' = out.fs
       /\ steps' = Append(steps, [st |-> "CACHE_HIT", err |-> out.err])
       /\ pc' = AfterCacheHit(out.err)
       /\ res' = IF out.err = "none" THEN "none" ELSE res
    /\ UNCHANGED <<fs0, call, docVars, procVars, gitVars>>

\* the automatic sync
Sync ==
    /\ pc = "SYNCING"
    /\ Len(steps) < MaxSteps
    /\ \E release \in Releases :
          \E out \in {autoSyncTemplates(fs, call.homeOK, release)} :
             /\ fs' = out.fs
             /\ steps' = Append(steps, [st |-> "SYNCING", err |-> out.err])
             /\ pc' = AfterSync(out.err)
             /\ res' = IF out.err = "none" THEN res
                       ELSE "failed to sync templates automatically. Please run 'specify templates sync' manually"
    /\ UNCHANGED <<fs0, call, docVars, procVars, gitVars>>

\* the extraction from the synced cache
Retry ==
    /\ pc = "RETRY"
    /\ \E out \in {extractFromCache(fs, call.homeOK, call.aiAssistant, ProjectDir, call.isHere)} :
       /\ fs' = out.fs
       /\ steps' = Append(steps, [st |-> "RETRY", err |-> out.err])
       /\ pc' = AfterRetry(out.err)
       /\ res' = IF out.err = "none" THEN "none" ELSE "failed to extract from synced cache"
    /\ UNCHANGED <<fs0, call, docVars, procVars, gitVars>>

\* the command "specify templates sync"
TemplatesSync ==
    /\ call = NoCall
    /\ pc = "IDLE"
    /\ \E release \in Releases, forceSync \in BOOLEAN, homeOK \in BOOLEAN :
          \E out \in {runTemplatesSync(fs, homeOK, release, forceSync)} :
          /\ fs' = out.fs
          /\ res' = out.err
          /\ call' = [op |-> "runTemplatesSync", forceSync |-> forceSync, homeOK |-> homeOK,
                      upToDate |-> out.upToDate]
    /\ fs0' = fs
    /\ UNCHANGED <<pc, steps, docVars, procVars, gitVars>>

\* ValidateCache on the manifest that is read from the cache
ValidateCacheCall ==
    /\ call = NoCall
    /\ pc = "IDLE"
    /\ ReadManifest(fs, TRUE).err = "none"
    /\ \E outcome \in ValidateCache(fs, TRUE, ReadManifest(fs, TRUE).manifest) :
          /\ res' = outcome.err
          /\ call' = [op |-> "ValidateCache", manifest |-> ReadManifest(fs, TRUE).manifest,
                      outcome |-> outcome]
    /\ fs0' = fs
    /\ UNCHANGED <<fs, pc, steps, docVars, procVars, gitVars>>

\* the steps of a DownloadAndExtract
ResolverNext == DownloadAndExtractStart \/ CacheHit \/ Sync \/ Retry

CacheNext == ResolverNext \/ TemplatesSync \/ ValidateCacheCall

SpecCache == CacheInit /\ [][CacheNext]_vars

\* a DownloadAndExtract is called and runs on: it is straight-line code, every
\* step of it that can be taken is taken
FairSpecCache == CacheInit /\ [][ResolverNext]_vars /\ WF_vars(ResolverNext)

\* the resolver state st was left with steps[i], some i
Left(st) == \E i \in 1..Len(steps) : steps[i].st = st

\* the resolver state st was entered
Entered(st) == pc = st \/ Left(st)

\* the number of times the resolver state st was left
Times(st) == Cardinality({i \in 1..Len(steps) : steps[i].st = st})

\* the resolver state st was left with an error
Failed(st) == \E i \in 1..Len(steps) : steps[i].st = st /\ steps[i].err # "none"

\* the first resolver state of the invocation
FirstState == IF steps = <<>> THEN pc ELSE steps[1].st

\* emptiness as the specification words it: the manifest is absent, or no
\* file other than the manifest lies under the cache root, at any depth
ClaimedEmpty(f, cacheRoot) ==
    \/ ~IsFile(f, Append(cacheRoot, ManifestName))
    \/ {q \in DOMAIN f : IsPrefix(cacheRoot, q) /\ IsFile(f, q)
                           /\ q # Append(cacheRoot, ManifestName)} = {}

\* C4: in a DownloadAndExtract past its first extraction, the sync was
\* entered exactly when the cache root was absent (or could not be resolved)
\* or empty, or the extraction from the current cache failed.
C4_SyncIffEmptyOrFailed ==
    (call.op = "DownloadAndExtract" /\ pc # "CACHE_HIT") =>
        (Entered("SYNCING") <=>
            \/ ~call.homeOK
            \/ ClaimedEmpty(fs0, CacheRoot)
            \/ Failed("CACHE_HIT"))

\* C5: a DownloadAndExtract makes at most one sync and at most two
\* extractions, the second one only after the sync, ends in FAILURE when the
\* second one fails, and reaches SUCCESS or FAILURE and stays there.
C5_OneRetryThenEnds ==
    /\ [](call.op = "DownloadAndExtract" =>
            /\ Times("SYNCING") <= 1
            /\ Times("CACHE_HIT") <= 1
            /\ Times("RETRY") <= 1
            /\ Times("RETRY") = 1 => Times("SYNCING") = 1
            /\ Failed("RETRY") => pc = "FAILURE")
    /\ <>[](call.op = "DownloadAndExtract" => pc \in {"SUCCESS", "FAILURE"})

\* the extraction from the current cache failed, the sync went through, the
\* extraction from the synced cache failed too and the invocation ended
C5_Witness ==
    /\ pc = "FAILURE"
    /\ Failed("CACHE_HIT")
    /\ Times("SYNCING") = 1
    /\ Failed("RETRY")

\* C8: DownloadAndExtract classifies the cache root as empty (it goes to the
\* sync without an extraction) exactly when the manifest is absent or no
\* other file lies under the cache root, files in subdirectories included.
C8_EmptyIffNoFiles ==
    (call.op = "DownloadAndExtract" /\ call.homeOK) =>
        (FirstState = "SYNCING" <=> ClaimedEmpty(fs0, CacheRoot))

\* every entry of the manifest at the cache root names a file of the cache
\* and records the hash that file has
ManifestCurrent(f) ==
    /\ readManifestFromPath(f, CacheRoot).err = "none"
    /\ \A rel \in DOMAIN readManifestFromPath(f, CacheRoot).manifest.Templates :
          /\ IsFile(f, Join(CacheRoot, rel))
          /\ CalculateFileHash(f[Join(CacheRoot, rel)].data)
                 = readManifestFromPath(f, CacheRoot).manifest.Templates[rel]

\* the latest step was a sync, automatic or by command, that succeeded
SyncSucceeded ==
    \/ /\ call.op = "DownloadAndExtract"
       /\ steps # <<>>
       /\ steps[Len(steps)] = [st |-> "SYNCING", err |-> "none"]
    \/ /\ call.op = "runTemplatesSync"
       /\ res = "none"
       /\ ~call.upToDate

\* C9: after a sync that succeeded, every entry of the manifest at the cache
\* root names a file that exists there and records its current hash.
C9_ManifestCurrentAfterSync == SyncSucceeded => ManifestCurrent(fs)

\* compatibility as the specification words it
ClaimedCompatible(cacheVersion, currentVersion) ==
    cacheVersion = currentVersion \/ cacheVersion = "dev" \/ currentVersion = "dev"

Versions == {"dev", "1.0.0", "2.0.0"}

\* C10: a manifest version is accepted exactly when it equals the current
\* version or one of the two is "dev": by isVersionCompatible, and by the
\* sync command, which stops at "up to date" exactly for such a manifest.
C10_DevIsWildcard ==
    /\ \A v \in Versions, w \in Versions :
          isVersionCompatible(v, w) <=> ClaimedCompatible(v, w)
    /\ (/\ call.op = "runTemplatesSync"
        /\ ~call.forceSync
        /\ res = "none"
        /\ ReadManifest(fs0, call.homeOK).err = "none") =>
          (call.upToDate <=>
              ClaimedCompatible(ReadManifest(fs0, call.homeOK).manifest.SpecKitVersion,
                                GetSpecKitVersion))

\* ------------------------------------------------------------- placement
(***************************************************************************)
(* The placement of an extracted archive tree, and of the cache, into the  *)
(* project directory.                                                      *)
(***************************************************************************)
\* the scratch directory extractTemplate extracted the archive into
ExtractedPath == <<"tmp", "extracted">>

\* AIAssistantDisplayNames: the supported agents
SupportedAgents == {"claude", "gemini", "copilot", "codex"}

\* the agents a placement is asked for
PlaceAssistants == {"claude", "codex", "copilot"}

\* the extracted trees: an agent folder of claude with a template, agent
\* folders of codex and copilot, the directories commands (with a
\* subdirectory), templates (with a template that does not parse and a file
\* after it), memory (with a subdirectory) and etc, and a file
PlaceTrees ==
    {Opt(<<".claude", "commands", "x.md">>, cl) @@ Opt(<<".codex", "x.md">>, cd)
       @@ Opt(<<".copilot", "x.md">>, cp) @@ Opt(<<"commands", "a", "x.md">>, cm)
       @@ Opt(<<"templates", "x.md">>, tp) @@ Opt(<<"templates", "z.md">>, tz)
       @@ Opt(<<"memory", "z.md">>, mz)
       @@ Opt(<<"memory", "a", "z.md">>, ma) @@ Opt(<<"etc", "x.md">>, et)
       @@ Opt(<<"README.md">>, rd) :
        cl \in {NoData, Action("assistant")},
        cd \in {NoData, Bytes(1)},
        cp \in {NoData, Bytes(1)},
        cm \in {NoData, Bytes(1)},
        tp \in {NoData, Bytes(2), Action("bad")},
        tz \in {NoData, Bytes(1)},
        mz \in {NoData, Bytes(1)},
        ma \in {NoData, Bytes(1)},
        et \in {NoData, Bytes(1)},
        rd \in {NoData, Bytes(1)}}

\* the caches with a manifest that lists x.md, z.md and memory/a/z.md with
\* the hashes they have, and with or without the file commands/z.md, which
\* an earlier sync left behind and the manifest does not list
PlaceCaches ==
    {Opt(<<ManifestName>>,
         [SpecKitVersion |-> "dev",
          Templates |-> Entry(XFile, IF x = NoData THEN NoData ELSE CalculateFileHash(x))
                          @@ Entry(ZFile, IF z = NoData THEN NoData ELSE CalculateFileHash(z))
                          @@ Entry(<<"memory", "a", "z.md">>,
                                   IF za = NoData THEN NoData ELSE CalculateFileHash(za))])
       @@ Opt(XFile, x) @@ Opt(ZFile, z) @@ Opt(<<"memory", "a", "z.md">>, za)
       @@ Opt(<<"commands", "z.md">>, stale) :
        stale \in {NoData, Bytes(2)},
        x \in {NoData, Bytes(1)},
        z \in {NoData, Bytes(1)},
        za \in {NoData, Bytes(1)}}

\* the project directory a placement starts from: as ProjectStates, or with
\* a file of an earlier placement
PlaceProjects ==
    ProjectStates \cup {Mount(ProjectDir, Opt(<<".claude", "commands", "x.md">>, Bytes(2)))}

PlaceInit ==
    /\ DocIdle
    /\ ProcIdle
    /\ GitIdle
    /\ ResolverIdle
    /\ \E prj \in PlaceProjects :
          \/ \E t \in PlaceTrees :
                fs = Mount(<<"home">>, <<>>) @@ prj @@ Mount(ExtractedPath, t)
          \/ \E c \in PlaceCaches :
                fs = Mount(<<"tmp">>, <<>>) @@ prj @@ Mount(CacheRoot, c)
    /\ fs0 = fs
    /\ call = NoCall
    /\ res = ""

\* extractTemplate places the tree it extracted
ExtractTemplateCall ==
    /\ call = NoCall
    /\ IsDir(fs, ExtractedPath)
    /\ \E aiAssistant \in PlaceAssistants, isHere \in BOOLEAN :
          \E out \in {extractTemplatePlacement(fs, ExtractedPath, ProjectDir, isHere, aiAssistant)} :
             /\ fs' = out.fs
             /\ res' = out.err
             /\ call' = [op |-> "extractTemplate", aiAssistant |-> aiAssistant,
                         isHere |-> isHere, source |-> ExtractedPath,
                         shape |-> Shape(fs, ExtractedPath)]
    /\ fs0' = fs
    /\ UNCHANGED <<docVars, procVars, gitVars, resolverVars>>

\* extractFromCache places the cache
ExtractFromCacheCall ==
    /\ call = NoCall
    /\ IsDir(fs, CacheRoot)
    /\ \E aiAssistant \in PlaceAssistants, isHere \in BOOLEAN :
          \E out \in {extractFromCache(fs, TRUE, aiAssistant, ProjectDir, isHere)} :
             /\ fs' = out.fs
             /\ res' = out.err
             /\ call' = [op |-> "extractFromCache", aiAssistant |-> aiAssistant,
                         isHere |-> isHere, source |-> CacheRoot, shape |-> "Cache"]
    /\ fs0' = fs
    /\ UNCHANGED <<docVars, procVars, gitVars, resolverVars>>

PlaceNext == ExtractTemplateCall \/ ExtractFromCacheCall

SpecPlace == PlaceInit /\ [][PlaceNext]_vars

\* a placement was made
Placed == call.op \in {"extractTemplate", "extractFromCache"}

\* the agent-specific hidden folder of the target
AgentDir == Append(ProjectDir, "." \o call.aiAssistant)

\* the paths, relative to dir, of the files f has under dir
FilesUnder(f, dir) ==
    {SubSeq(q, Len(dir) + 1, Len(q)) : q \in {x \in DOMAIN f : IsPrefix(dir, x) /\ IsFile(f, x)}}

\* the names of the directories f has in dir
DirsIn(f, dir) == {nm \in ReadDir(f, dir) : IsDir(f, Append(dir, nm))}

\* the shape as the specification words it
ClaimedShape(f, extractedPath) ==
    IF \E a \in SupportedAgents : IsDir(f, Append(extractedPath, "." \o a)) THEN "Mixed"
    ELSE IF \E nm \in UnifiedNames : IsDir(f, Append(extractedPath, nm)) THEN "Unified"
    ELSE "Legacy"

\* C11: the placement of an extracted tree takes the branch of the shape the
\* tree has: Mixed with a top-level folder of some supported agent, else
\* Unified with a unified structure directory, else Legacy.
C11_ShapeAsClaimed ==
    call.op = "extractTemplate" => call.shape = ClaimedShape(fs0, ExtractedPath)

\* C12: no placement writes a file of the memory directory of its source
\* beneath the agent folder of the target.
C12_MemoryNotUnderAgent ==
    Placed =>
        \A rel \in FilesUnder(fs0, call.source) :
            rel[1] = "memory" =>
                (IsFile(fs, Join(AgentDir, rel)) => IsFile(fs0, Join(AgentDir, rel)))

\* the entries f has beneath the top-level directory nm of dir, relative to it
EntriesUnder(f, dir) ==
    {SubSeq(q, Len(dir) + 1, Len(q)) : q \in {x \in DOMAIN f : IsPrefix(dir, x) /\ x # dir}}

\* the placement of an extracted tree ended without an error
PlacedTree == call.op = "extractTemplate" /\ res = "none"

\* C13: after the placement of a Unified tree every entry of a top-level
\* directory other than memory lies beneath the agent folder of the target at
\* its relative path, and every entry of memory beneath target/memory, each
\* as it is in the tree.
C13_UnifiedPlaced ==
    (PlacedTree /\ call.shape = "Unified") =>
        \A nm \in DirsIn(fs0, ExtractedPath) :
            \A rel \in EntriesUnder(fs0, Append(ExtractedPath, nm)) :
                LET dest == IF nm = "memory" THEN Join(ProjectDir, <<nm>> \o rel)
                            ELSE Join(AgentDir, <<nm>> \o rel)
                IN  /\ dest \in DOMAIN fs
                    /\ fs[dest] = fs0[Join(ExtractedPath, <<nm>> \o rel)]

\* a Unified tree with commands/a/x.md, etc/x.md and both memory files was
\* placed
C13_Witness ==
    /\ PlacedTree
    /\ call.shape = "Unified"
    /\ IsFile(fs, Join(AgentDir, <<"commands", "a", "x.md">>))
    /\ IsFile(fs, Join(AgentDir, <<"etc", "x.md">>))
    /\ IsFile(fs, Join(ProjectDir, <<"memory", "a", "z.md">>))
    /\ IsFile(fs, Join(ProjectDir, <<"memory", "z.md">>))

\* the tree holds the hidden folder of the requested agent
HasRequestedFolder == IsDir(fs0, Append(ExtractedPath, "." \o call.aiAssistant))

\* the files of the folder of the requested agent and of the unified
\* structure directories lie beneath the agent folder of the target, those of
\* memory beneath target/memory
MixedLayout ==
    /\ \A rel \in FilesUnder(fs0, Append(ExtractedPath, "." \o call.aiAssistant)) :
          IsFile(fs, Join(AgentDir, rel))
    /\ \A nm \in UnifiedNames :
          \A rel \in FilesUnder(fs0, Append(ExtractedPath, nm)) :
             IsFile(fs, Join(AgentDir, <<nm>> \o rel))
    /\ \A rel \in FilesUnder(fs0, Append(ExtractedPath, "memory")) :
          IsFile(fs, Join(ProjectDir, <<"memory">> \o rel))

\* C14: after the placement of a tree that holds the folder of the requested
\* agent, the files of that folder and of every unified structure directory
\* lie beneath target/.{agent}/ and the files of memory beneath target/memory.
C14_MixedPlaced == (PlacedTree /\ HasRequestedFolder) => MixedLayout

\* the same, for the trees applyUnifiedTemplateExtraction takes for Mixed
C14_MixedPlacedAsClassified ==
    (PlacedTree /\ HasRequestedFolder /\ call.shape = "Mixed") => MixedLayout

\* the paths of f beneath the target that have the name nm on the way
TargetPathsNamed(f, nm) ==
    {q \in DOMAIN f : IsPrefix(ProjectDir, q) /\ nm \in Names(q)}

\* C15: the placement of a Mixed tree writes nothing of the folder of an
\* agent other than the requested one into the target.
C15_OtherAgentIgnored ==
    (call.op = "extractTemplate" /\ call.shape = "Mixed") =>
        \A a \in SupportedAgents \ {call.aiAssistant} :
            IsDir(fs0, Append(ExtractedPath, "." \o a)) =>
                TargetPathsNamed(fs, "." \o a) \subseteq TargetPathsNamed(fs0, "." \o a)

\* ------------------------------------------------------------ flattening
\* the names of the direct children the scratch directory has after the
\* extraction of the archive
TopNames(archive) == {archive.entries[i].name[1] : i \in 1..Len(archive.entries)}

\* the scratch directory has exactly one direct child and it is a directory
SingleTopDir(archive) ==
    /\ Cardinality(TopNames(archive)) = 1
    /\ \A i \in 1..Len(archive.entries) :
          archive.entries[i].dir \/ Len(archive.entries[i].name) > 1

\* the place of the entry e in the payload, as the specification words it
PayloadPath(archive, e) == IF SingleTopDir(archive) THEN Tail(e.name) ELSE e.name

\* C16: an ExtractZIPWithFlatten that succeeds leaves every file of the
\* archive in the destination at its path below the single top-level
\* directory when the archive has exactly one top-level entry and that is a
\* directory, at its own path otherwise, and writes no other file.
C16_FlattenIffSingleDir ==
    (call.op = "ExtractZIPWithFlatten" /\ res = "none") =>
        /\ \A i \in 1..Len(call.archive.entries) :
              LET e == call.archive.entries[i]
                  dest == Join(DstRoot, PayloadPath(call.archive, e))
              IN  ~e.dir => (IsFile(fs, dest) /\ fs[dest].data = e.data)
        /\ WrittenFiles \subseteq
              {Join(DstRoot, PayloadPath(call.archive, call.archive.entries[i])) :
                  i \in 1..Len(call.archive.entries)}

\* the archive of the one file a/b was extracted: b lies in the destination,
\* and no new directory a
C16_Witness ==
    /\ call.op = "ExtractZIPWithFlatten"
    /\ res = "none"
    /\ TopNames(call.archive) = {"a"}
    /\ SingleTopDir(call.archive)
    /\ IsFile(fs, Append(DstRoot, "b"))
    /\ ~Exists(fs, Append(DstRoot, "a"))

\* a sync that succeeded on a cache root that was absent left the files of
\* the archive at the cache root, under no wrapper directory
C16_SyncNoWrapper ==
    (SyncSucceeded /\ ~Exists(fs0, CacheRoot)) =>
        /\ IsFile(fs, Append(CacheRoot, "README.md"))
        /\ IsFile(fs, Join(CacheRoot, XFile))
        /\ "kit" \notin ReadDir(fs, CacheRoot)

\* ------------------------------------------------------- cache validation
\* the manifest entry rel has its file in the cache, with the recorded hash
EntryHolds(f, manifest, rel) ==
    /\ IsFile(f, Join(CacheRoot, rel))
    /\ CalculateFileHash(f[Join(CacheRoot, rel)].data) = manifest.Templates[rel]

\* C17: ValidateCache succeeds exactly when every manifest entry has its file
\* under the cache root with the recorded hash; otherwise it fails with a
\* missing file of the manifest, or with a file of the manifest whose hash
\* differs, the recorded hash and the hash the file has.
C17_ValidateIffAllMatch ==
    call.op = "ValidateCache" =>
        /\ res = "none" <=>
              \A rel \in DOMAIN call.manifest.Templates : EntryHolds(fs, call.manifest, rel)
        /\ res \in {"none", "cached file missing", "hash mismatch"}
        /\ res = "cached file missing" =>
              /\ call.outcome.path \in DOMAIN call.manifest.Templates
              /\ ~IsFile(fs, Join(CacheRoot, call.outcome.path))
        /\ res = "hash mismatch" =>
              /\ call.outcome.path \in DOMAIN call.manifest.Templates
              /\ IsFile(fs, Join(CacheRoot, call.outcome.path))
              /\ call.outcome.expected = call.manifest.Templates[call.outcome.path]
              /\ call.outcome.actual
                    = CalculateFileHash(fs[Join(CacheRoot, call.outcome.path)].data)
              /\ call.outcome.expected # call.outcome.actual

\* a validation failed on the hash of x.md while z.md of the manifest is missing
C17_Witness ==
    /\ call.op = "ValidateCache"
    /\ res = "hash mismatch"
    /\ call.outcome.path = XFile
    /\ ZFile \in DOMAIN call.manifest.Templates
    /\ ~IsFile(fs, Join(CacheRoot, ZFile))

\* ---------------------------------------------------- scratch directories
\* the directory os.MkdirTemp makes the scratch directories in
TempRoot == <<"tmp">>

\* a sync, automatic or by command, has returned
SyncReturned ==
    \/ call.op = "runTemplatesSync"
    \/ call.op = "DownloadAndExtract" /\ Left("SYNCING")

\* C18: once autoSyncTemplates or runTemplatesSync has returned, with or
\* without an error, no scratch directory of it or of the
\* ExtractZIPWithFlatten it called is left.
C18_ScratchRemoved == SyncReturned => ReadDir(fs, TempRoot) = {}

\* an automatic sync downloaded the archive into its scratch directory and
\* failed at the extraction
C18_Witness ==
    /\ call.op = "DownloadAndExtract"
    /\ \E i \in 1..Len(steps) :
          steps[i] = [st |-> "SYNCING", err |-> "failed to extract template ZIP"]
    /\ ReadDir(fs, TempRoot) = {}

\* --------------------------------------------------- the error after RETRY
\* the errors of DownloadAndExtract that tell the caller to run the sync
ManualSyncMessages ==
    {"failed to sync templates automatically. Please run 'specify templates sync' manually"}

\* C19: a DownloadAndExtract whose extraction after the automatic sync fails
\* ends in FAILURE with an error that tells the caller to run the sync.
C19_RetryFailureTellsSync ==
    (call.op = "DownloadAndExtract" /\ Failed("RETRY")) =>
        (pc = "FAILURE" /\ res \in ManualSyncMessages)

\* --------------------------------------------------- the created document
\* C20: a call that finds no context file creates it with exactly one
\* delimited region, one opening marker followed by one closing marker, and
\* the region is the freshly generated section.
C20_CreatedOneRegion ==
    docCreated =>
        /\ agentsFile # Absent
        /\ OnePair(agentsFile)
        /\ FindString(agentsFile) = getSpecifySectionContent(tmplFile)

\* the same on the built-in document, used when there is no template file
C20_CreatedFromBuiltIn ==
    (docCreated /\ tmplFile = Absent) =>
        /\ agentsFile # Absent
        /\ OnePair(agentsFile)
        /\ FindString(agentsFile) = getSpecifySectionContent(tmplFile)

\* ------------------------------------------------- the appended section
\* the latest call ran on an existing document without any marker
MergedWithoutMarkers ==
    /\ calls >= 1
    /\ prevFile # Absent
    /\ Count(prevFile, "O") = 0
    /\ Count(prevFile, "C") = 0

\* C21: a merge on a document without markers writes the existing content, a
\* newline, the freshly generated block and a newline; the existing content
\* is a prefix of the result.
C21_AppendedAfterContent ==
    MergedWithoutMarkers =>
        LET block == getSpecifySectionContent(tmplFile)
            n == Len(prevFile)
        IN /\ docErr = "none"
           /\ Len(agentsFile) = n + Len(block) + 2
           /\ SubSeq(agentsFile, 1, n) = prevFile
           /\ agentsFile[n + 1] = "n"
           /\ SubSeq(agentsFile, n + 2, n + 1 + Len(block)) = block
           /\ agentsFile[Len(agentsFile)] = "n"

\* a non-empty document without markers got a section from a template file
\* whose section holds a dollar sign
C21_Witness ==
    /\ MergedWithoutMarkers
    /\ calls = 1
    /\ prevFile # <<>>
    /\ tmplFile # Absent
    /\ FindString(tmplFile) # <<>>
    /\ Count(FindString(tmplFile), "$") > 0
    /\ docErr = "none"

\* ------------------------------------------- a template that does not parse
\* the walk of processTemplateDirectory over templates met x.md, which does
\* not parse, with the file z.md still to come, and nothing of the target is
\* in the way of the files it writes
BadTemplateBeforeFile ==
    /\ call.op = "extractTemplate"
    /\ call.shape = "Mixed"
    /\ ~IsFile(fs0, ProjectDir)
    /\ IsFile(fs0, Join(ExtractedPath, <<"templates", "x.md">>))
    /\ fs0[Join(ExtractedPath, <<"templates", "x.md">>)].data = Action("bad")
    /\ IsFile(fs0, Join(ExtractedPath, <<"templates", "z.md">>))

\* C22: a template that fails to process fails the copy of that file only:
\* the placement reports the failure and the walk still copies the files
\* that come after it.
C22_WalkGoesOn ==
    BadTemplateBeforeFile =>
        /\ res = "failed to process unified directory templates to agent folder"
        /\ IsFile(fs, Join(AgentDir, <<"templates", "z.md">>))

\* the failure is reported
C22_FailureReported ==
    BadTemplateBeforeFile =>
        res = "failed to process unified directory templates to agent folder"

\* ------------------------------------------------ the Codex AGENTS.md
(***************************************************************************)
(* The text of the Codex AGENTS.md is a sequence of tokens: "H" is the     *)
(* heading "## For OpenAI Codex", "S" and "E" are the markers              *)
(* "<!-- specify-codex-start -->" and "<!-- specify-codex-end -->", "n" is *)
(* white space and "a" is any other text.                                  *)
(***************************************************************************)
CodexTokens == {"H", "S", "E", "a", "n"}

\* the longest existing AGENTS.md
MaxCodexLen == 3

\* the plan contents: none, or a plan with technology lines
Plans == {<<>>, <<"a", "n", "a">>}

\* strings.TrimSpace(s)
TrimSpace(s) ==
    IF \A i \in 1..Len(s) : s[i] = "n" THEN <<>>
    ELSE SubSeq(s, CHOOSE i \in 1..Len(s) : s[i] # "n" /\ \A k \in 1..(i - 1) : s[k] = "n",
                   CHOOSE j \in 1..Len(s) : s[j] # "n" /\ \A k \in (j + 1)..Len(s) : s[k] = "n")

\* AgentsGenerator.generateCodexSection(): the heading and the text under it
generateCodexSection == <<"H", "n", "a", "n">>

\* AgentsGenerator.generateDelimitedCodexSection()
generateDelimitedCodexSection == <<"S", "n">> \o generateCodexSection \o <<"n", "E">>

\* AgentsGenerator.generateProjectContext(planContent): its heading and the
\* technology lines of the plan, or the placeholder line
generateProjectContext(planContent) ==
    <<"a", "n", "n">> \o (IF planContent # <<>> THEN planContent ELSE <<"a">>) \o <<"n", "n">>

\* AgentsGenerator.mergeContent(existing, planContent)
mergeContent(existing, planContent) ==
    LET startIdx == IndexFrom(existing, "S", 1)
        endIdx == IndexFrom(existing, "E", 1)
    IN IF startIdx # 0
       THEN IF endIdx = 0
            THEN [text |-> <<>>, err |-> "found codex start marker but no end marker"]
            ELSE [text |-> SubSeq(existing, 1, startIdx - 1) \o generateDelimitedCodexSection
                             \o SubSeq(existing, endIdx + 1, Len(existing)),
                  err |-> "none"]
       ELSE [text |-> (IF TrimSpace(existing) # <<>>
                       THEN TrimSpace(existing) \o <<"n", "n">>
                       ELSE <<>>) \o generateDelimitedCodexSection,
             err |-> "none"]

\* AgentsGenerator.Generate(planContent, existingContent)
Generate(planContent, existingContent) ==
    IF existingContent # <<>> THEN mergeContent(existingContent, planContent)
    ELSE [text |-> <<"a", "n", "n", "a", "n", "n">> \o generateCodexSection
                     \o generateProjectContext(planContent),
          err |-> "none"]

CodexInit ==
    /\ FsIdle
    /\ ResolverIdle
    /\ ProcIdle
    /\ GitIdle
    /\ agentsFile \in {Absent} \cup TextsUpTo(MaxCodexLen, CodexTokens)
    /\ tmplFile = Absent
    /\ origFile = agentsFile
    /\ prevFile = agentsFile
    /\ docErr = ""
    /\ docCreated = FALSE
    /\ calls = 0

\* Service.GenerateAGENTS on the AGENTS.md of the project, and
\* Service.WriteAGENTS of what it returned
GenerateAGENTS ==
    /\ calls < MaxCalls
    /\ calls' = calls + 1
    /\ prevFile' = agentsFile
    /\ \E planContent \in Plans :
          \E out \in {Generate(planContent, IF agentsFile = Absent THEN <<>> ELSE agentsFile)} :
             /\ docErr' = out.err
             /\ agentsFile' = IF out.err = "none" THEN out.text ELSE agentsFile
             /\ docCreated' = (out.err = "none" /\ agentsFile = Absent)
    /\ UNCHANGED <<tmplFile, origFile>>
    /\ UNCHANGED <<fsVars, resolverVars, procVars, gitVars>>

CodexNext == GenerateAGENTS

SpecCodex == CodexInit /\ [][CodexNext]_vars

\* C23: what Generate returns holds the heading "## For OpenAI Codex" exactly
\* once, whatever the existing content was.
C23_CodexOnce ==
    (calls >= 1 /\ docErr = "none") => Count(agentsFile, "H") = 1

\* the same for an existing content in which the heading lies inside one
\* delimited section, the start marker before the end marker
C23_CodexOnceDelimited ==
    (/\ calls >= 1
     /\ docErr = "none"
     /\ prevFile # Absent
     /\ Count(prevFile, "S") = 1
     /\ Count(prevFile, "E") = 1
     /\ IndexFrom(prevFile, "S", 1) < IndexFrom(prevFile, "E", 1)
     /\ \A i \in 1..Len(prevFile) :
           prevFile[i] = "H" =>
              (IndexFrom(prevFile, "S", 1) < i /\ i < IndexFrom(prevFile, "E", 1))) =>
        Count(agentsFile, "H") = 1

\* ------------------------------------------------------- concurrent syncs
(***************************************************************************)
(* Two invocations of autoSyncTemplates run at the same time on the same   *)
(* cache root.  Each has a scratch directory of its own (os.MkdirTemp      *)
(* gives every caller a fresh name), so they meet only in the cache root,  *)
(* where MergeDirectories copies the manifest of the release with          *)
(* copyFile.  A step is one system call on the manifest of the cache; the  *)
(* content of a manifest is a sequence of bytes, [seq |-> bytes].  call    *)
(* holds, for each invocation, where it is (at), the manifest of the       *)
(* release it extracted (data) and the offset of its descriptor (off).     *)
(***************************************************************************)
Syncers == {1, 2}

\* the manifests of the releases an invocation can download
ReleaseManifests == {<<"a">>, <<"a", "a", "a">>, <<"b", "b">>, <<"b", "b", "b">>}

\* the bytes one write of io.Copy carries
ChunkLen == 2

CacheManifestPath == Append(CacheRoot, ManifestName)

\* the content of a manifest file
Content(bytes) == [seq |-> bytes]

\* write(2) of bytes at offset off of the file content old; a gap between
\* the end of the file and off reads as zero bytes
WriteAt(old, off, bytes) ==
    [i \in 1..(IF off + Len(bytes) > Len(old) THEN off + Len(bytes) ELSE Len(old)) |->
        IF i > off /\ i <= off + Len(bytes) THEN bytes[i - off]
        ELSE IF i <= Len(old) THEN old[i]
        ELSE "0"]

RaceInit ==
    /\ DocIdle
    /\ ProcIdle
    /\ GitIdle
    /\ ResolverIdle
    /\ \E old \in {NoData, Content(<<"o", "o">>)} :
          fs = Mount(<<"tmp">>, <<>>) @@ Mount(CacheRoot, Opt(<<ManifestName>>, old))
    /\ fs0 = fs
    /\ call = [op |-> "autoSyncTemplates",
               at |-> [p \in Syncers |-> "start"],
               data |-> [p \in Syncers |-> <<>>],
               off |-> [p \in Syncers |-> 0]]
    /\ res = ""

\* autoSyncTemplates up to its MergeDirectories: the release is downloaded
\* and extracted into the scratch directory of the invocation
SyncExtract(p) ==
    /\ call.op = "autoSyncTemplates"
    /\ call.at[p] = "start"
    /\ \E m \in ReleaseManifests :
          call' = [call EXCEPT !.at[p] = "open", !.data[p] = m]
    /\ UNCHANGED <<fs, fs0, res, docVars, procVars, gitVars, resolverVars>>

\* copyFile: os.OpenFile(destPath, O_WRONLY|O_CREATE|O_TRUNC)
SyncOpen(p) ==
    /\ call.op = "autoSyncTemplates"
    /\ call.at[p] = "open"
    /\ fs' = WriteData(fs, CacheManifestPath, Content(<<>>))
    /\ call' = [call EXCEPT !.at[p] = "copy", !.off[p] = 0]
    /\ UNCHANGED <<fs0, res, docVars, procVars, gitVars, resolverVars>>

\* copyFile: one write of io.Copy at the offset of the descriptor
SyncWrite(p) ==
    /\ call.op = "autoSyncTemplates"
    /\ call.at[p] = "copy"
    /\ call.off[p] < Len(call.data[p])
    /\ \E n \in {IF Len(call.data[p]) - call.off[p] > ChunkLen THEN ChunkLen
                 ELSE Len(call.data[p]) - call.off[p]} :
          /\ fs' = WriteData(fs, CacheManifestPath,
                             Content(WriteAt(fs[CacheManifestPath].data.seq, call.off[p],
                                         SubSeq(call.data[p], call.off[p] + 1, call.off[p] + n))))
          /\ call' = [call EXCEPT !.off[p] = call.off[p] + n]
    /\ UNCHANGED <<fs0, res, docVars, procVars, gitVars, resolverVars>>

\* copyFile returns at the end of the source, and autoSyncTemplates returns
SyncReturn(p) ==
    /\ call.op = "autoSyncTemplates"
    /\ call.at[p] = "copy"
    /\ call.off[p] = Len(call.data[p])
    /\ call' = [call EXCEPT !.at[p] = "done"]
    /\ UNCHANGED <<fs, fs0, res, docVars, procVars, gitVars, resolverVars>>

RaceNext == \E p \in Syncers : SyncExtract(p) \/ SyncOpen(p) \/ SyncWrite(p) \/ SyncReturn(p)

SpecRace == RaceInit /\ [][RaceNext]_vars

\* both invocations have returned
BothSynced == call.op = "autoSyncTemplates" /\ \A p \in Syncers : call.at[p] = "done"

\* C24: when two concurrent syncs into one cache root have both finished,
\* the manifest of the cache is the manifest one of the two wrote, whole.
C24_LastWriterWins ==
    BothSynced => \E p \in Syncers : fs[CacheManifestPath].data = Content(call.data[p])

\* the same when no step of one invocation falls between the opening of the
\* manifest by the other and its return: once an invocation has returned,
\* and the other is not in its copy, the manifest is whole
C24_WholeWhenNotOverlapping ==
    (/\ call.op = "autoSyncTemplates"
     /\ \E p \in Syncers : call.at[p] = "done"
     /\ \A p \in Syncers : call.at[p] # "copy"
     /\ \E p \in Syncers : call.at[p] \in {"start", "open"}) =>
        \E p \in Syncers : fs[CacheManifestPath].data = Content(call.data[p])

\* --------------------------------------------------- the template Processor
(***************************************************************************)
(* The content of a template is a sequence of bytes: "a" and "b" are       *)
(* plain text, "A" stands for the action {{.AIAssistant}} and "X" for an   *)
(* action that does not parse.  A compiled template is the name and the    *)
(* content it was parsed from.  Several goroutines call one Processor; a   *)
(* step of a goroutine is one access to the Processor, with the            *)
(* computation of the goroutine that follows it.                           *)
(***************************************************************************)
Goroutines == {1, 2}

\* the calls one goroutine makes
MaxGoCalls == 2

TemplateContents == {<<>>, <<"a", "a", "b">>, <<"a", "A", "b">>, <<"X">>}

TemplateNames == {"f"}

TemplateData == {[AIAssistant |-> "claude"], [AIAssistant |-> "codex"]}

\* Processor.generateCacheKey(content): the length, the first and the last
\* byte of the content
generateCacheKey(content) ==
    IF Len(content) = 0 THEN [name |-> "", key |-> <<"empty">>]
    ELSE [name |-> "", key |-> <<"tmpl", Len(content), content[1], content[Len(content)]>>]

\* Processor.generateNamedCacheKey(name, content)
generateNamedCacheKey(name, content) ==
    [name |-> name \o "_", key |-> generateCacheKey(content).key]

\* template.New(name).Parse(content)
ParseTemplate(name, content) ==
    IF \E i \in 1..Len(content) : content[i] = "X"
    THEN [tmpl |-> <<>>, err |-> "failed to parse template"]
    ELSE [tmpl |-> [name |-> name, content |-> content], err |-> "none"]

\* Processor.executeTemplate(tmpl, data): the content with every action
\* replaced by the assistant of data
executeTemplate(tmpl, data) ==
    [i \in 1..Len(tmpl.content) |->
        IF tmpl.content[i] = "A" THEN data.AIAssistant ELSE tmpl.content[i]]

IdleGoroutine == [at |-> "idle", op |-> "none", n |-> 0]

ProcInit ==
    /\ DocIdle
    /\ FsIdle
    /\ ResolverIdle
    /\ GitIdle
    /\ cache = <<>>
    /\ mutex = 0
    /\ gs = [g \in Goroutines |-> IdleGoroutine]

\* goroutine g calls Process(content, data)
CallProcess(g) ==
    /\ gs[g].at = "idle"
    /\ gs[g].n < MaxGoCalls
    /\ \E content \in TemplateContents, data \in TemplateData :
          gs' = [gs EXCEPT ![g] = [at |-> "load", op |-> "Process", n |-> gs[g].n + 1,
                                   name |-> "template", content |-> content, data |-> data,
                                   cacheKey |-> generateCacheKey(content)]]
    /\ UNCHANGED <<cache, mutex, docVars, fsVars, resolverVars, gitVars>>

\* goroutine g calls ProcessWithName(name, content, data)
CallProcessWithName(g) ==
    /\ gs[g].at = "idle"
    /\ gs[g].n < MaxGoCalls
    /\ \E name \in TemplateNames, content \in TemplateContents, data \in TemplateData :
          gs' = [gs EXCEPT ![g] = [at |-> "load", op |-> "ProcessWithName", n |-> gs[g].n + 1,
                                   name |-> name, content |-> content, data |-> data,
                                   cacheKey |-> generateNamedCacheKey(name, content)]]
    /\ UNCHANGED <<cache, mutex, docVars, fsVars, resolverVars, gitVars>>

\* goroutine g calls ClearCache() or CacheStats()
CallOther(g) ==
    /\ gs[g].at = "idle"
    /\ gs[g].n < MaxGoCalls
    /\ \E op \in {"ClearCache", "CacheStats"} :
          gs' = [gs EXCEPT ![g] = [at |-> IF op = "ClearCache" THEN "lock" ELSE "range",
                                   op |-> op, n |-> gs[g].n + 1]]
    /\ UNCHANGED <<cache, mutex, docVars, fsVars, resolverVars, gitVars>>

\* the result of a call of Process or ProcessWithName by a goroutine at c
Returned(c, out, err) ==
    [at |-> "idle", op |-> c.op, n |-> c.n, name |-> c.name, content |-> c.content,
     data |-> c.data, out |-> out, err |-> err]

\* p.cache.Load(cacheKey): a hit executes the cached template and returns; a
\* miss parses the content, and returns when it does not parse
CacheLoad(g) ==
    /\ gs[g].at = "load"
    /\ gs' = [gs EXCEPT ![g] =
                IF gs[g].cacheKey \in DOMAIN cache
                THEN Returned(gs[g], executeTemplate(cache[gs[g].cacheKey], gs[g].data), "none")
                ELSE IF ParseTemplate(gs[g].name, gs[g].content).err # "none"
                THEN Returned(gs[g], <<>>, ParseTemplate(gs[g].name, gs[g].content).err)
                ELSE [gs[g] EXCEPT !.at = "store"]]
    /\ UNCHANGED <<cache, mutex, docVars, fsVars, resolverVars, gitVars>>

\* p.cache.Store(cacheKey, tmpl), and the execution of the parsed template
CacheStore(g) ==
    /\ gs[g].at = "store"
    /\ \E tmpl \in {ParseTemplate(gs[g].name, gs[g].content).tmpl} :
          /\ cache' = [k \in DOMAIN cache \cup {gs[g].cacheKey} |->
                          IF k = gs[g].cacheKey THEN tmpl ELSE cache[k]]
          /\ gs' = [gs EXCEPT ![g] = Returned(gs[g], executeTemplate(tmpl, gs[g].data), "none")]
    /\ UNCHANGED <<mutex, docVars, fsVars, resolverVars, gitVars>>

\* ClearCache: p.mutex.Lock()
MutexLock(g) ==
    /\ gs[g].at = "lock"
    /\ mutex = 0
    /\ mutex' = g
    /\ gs' = [gs EXCEPT ![g].at = "assign"]
    /\ UNCHANGED <<cache, docVars, fsVars, resolverVars, gitVars>>

\* the sync.Map methods another goroutine is about to run on p.cache
MapAccess(g) == {h \in Goroutines \ {g} : gs[h].at \in {"load", "store", "range"}}

\* ClearCache: p.cache = sync.Map{}, a plain write of the field.  When
\* another goroutine is inside a method of the old map at that time, the
\* write is a data race and the map may come out empty or as it was.
CacheAssign(g) ==
    /\ gs[g].at = "assign"
    /\ cache' \in (IF MapAccess(g) # {} THEN {<<>>, cache} ELSE {<<>>})
    /\ gs' = [gs EXCEPT ![g].at = "unlock"]
    /\ UNCHANGED <<mutex, docVars, fsVars, resolverVars, gitVars>>

\* ClearCache: the deferred p.mutex.Unlock()
MutexUnlock(g) ==
    /\ gs[g].at = "unlock"
    /\ mutex' = 0
    /\ gs' = [gs EXCEPT ![g] = [at |-> "idle", op |-> "ClearCache", n |-> gs[g].n]]
    /\ UNCHANGED <<cache, docVars, fsVars, resolverVars, gitVars>>

\* CacheStats: p.cache.Range
CacheRange(g) ==
    /\ gs[g].at = "range"
    /\ gs' = [gs EXCEPT ![g] = [at |-> "idle", op |-> "CacheStats", n |-> gs[g].n,
                                count |-> Cardinality(DOMAIN cache)]]
    /\ UNCHANGED <<cache, mutex, docVars, fsVars, resolverVars, gitVars>>

ProcNext ==
    \E g \in Goroutines :
        \/ CallProcess(g)
        \/ CallProcessWithName(g)
        \/ CallOther(g)
        \/ CacheLoad(g)
        \/ CacheStore(g)
        \/ MutexLock(g)
        \/ CacheAssign(g)
        \/ MutexUnlock(g)
        \/ CacheRange(g)

SpecProc == ProcInit /\ [][ProcNext]_vars

\* C25: no goroutine is about to write the cache field of the Processor
\* while another is about to run a method of the map in it with no lock
\* held by both.
C25_NoUnsynchronizedAccess ==
    \A g \in DOMAIN gs : gs[g].at = "assign" => MapAccess(g) = {}

\* a Process or ProcessWithName of goroutine g has returned without an error
ProcessReturned(g) ==
    /\ gs[g].at = "idle"
    /\ gs[g].op \in {"Process", "ProcessWithName"}
    /\ gs[g].err = "none"

\* C29: what Process and ProcessWithName return is the rendering of the
\* content passed in that call with the data passed in that call.
C29_RendersOwnContent ==
    \A g \in DOMAIN gs :
        ProcessReturned(g) =>
            gs[g].out = executeTemplate([name |-> gs[g].name, content |-> gs[g].content],
                                        gs[g].data)

\* ------------------------------------------------ success without a block
\* strings.Contains(s, block)
Contains(s, block) ==
    \E i \in 1..(Len(s) - Len(block) + 1) : SubSeq(s, i, i + Len(block) - 1) = block

\* the latest call ran on an existing document and reported success; the
\* generated block holds no dollar sign, which a replacement would expand
UpdatedExisting ==
    /\ calls >= 1
    /\ prevFile # Absent
    /\ docErr = "none"
    /\ Count(getSpecifySectionContent(tmplFile), "$") = 0

\* C26: when a call on an existing document reports success, the file holds
\* the freshly generated block; a document with its closing marker before
\* its opening marker is not reported as updated and left as it was.
C26_SuccessHoldsBlock ==
    UpdatedExisting => Contains(agentsFile, getSpecifySectionContent(tmplFile))

\* the same for the documents whose markers are one well-formed pair or none
C26_SuccessHoldsBlockWellFormed ==
    (UpdatedExisting /\ WellFormed(prevFile)) =>
        Contains(agentsFile, getSpecifySectionContent(tmplFile))

\* ------------------------------------------------- files outside the manifest
\* the manifest of the cache the placement started from
ManifestBefore == fs0[Append(CacheRoot, ManifestName)].data

\* the files of the target the placement wrote: new, or with other content
FilesWritten ==
    {q \in DOMAIN fs : /\ IsPrefix(ProjectDir, q)
                       /\ IsFile(fs, q)
                       /\ (q \notin DOMAIN fs0 \/ fs0[q] # fs[q])}

\* C27: every file a successful extraction from the cache wrote into the
\* target is the copy of a file the manifest of the cache lists.
C27_OnlyManifestFiles ==
    (call.op = "extractFromCache" /\ res = "none") =>
        \A q \in FilesWritten :
            \E rel \in DOMAIN ManifestBefore.Templates :
                q \in {Join(AgentDir, rel), Join(ProjectDir, rel)}

\* the same for the caches that hold no file besides those of the manifest
C27_OnlyManifestFilesCleanCache ==
    (/\ call.op = "extractFromCache"
     /\ res = "none"
     /\ FilesUnder(fs0, CacheRoot) \ {<<ManifestName>>}
           \subseteq DOMAIN ManifestBefore.Templates) =>
        \A q \in FilesWritten :
            \E rel \in DOMAIN ManifestBefore.Templates :
                q \in {Join(AgentDir, rel), Join(ProjectDir, rel)}

\* ------------------------------------------------- one place for an entry
\* the placement made an entry beneath dir that was not there before
NewUnder(dir) == \E q \in DOMAIN fs \ DOMAIN fs0 : IsPrefix(dir, q)

\* C28: the placement of a Mixed tree writes a top-level directory of the
\* tree to one place of the target at most: not beneath target/.{agent}/ and
\* also at the target root.
C28_OnePlace ==
    (PlacedTree /\ call.shape = "Mixed") =>
        \A nm \in DirsIn(fs0, ExtractedPath) :
            ~(NewUnder(Append(AgentDir, nm)) /\ NewUnder(Append(ProjectDir, nm)))

\* the same for the directories with a unified structure name
C28_OnePlaceUnifiedNames ==
    (PlacedTree /\ call.shape = "Mixed") =>
        \A nm \in DirsIn(fs0, ExtractedPath) \cap UnifiedNames :
            ~(NewUnder(Append(AgentDir, nm)) /\ NewUnder(Append(ProjectDir, nm)))

\* ------------------------------------------------------------- features
(***************************************************************************)
(* "specify feature create": the repository is the directory repo with its *)
(* specs directory in the filesystem, and the set of its branches.  A      *)
(* description is a sequence of characters: "x" and "y" are lower-case     *)
(* letters, "X" is the upper-case x and "!" is a character that is neither *)
(* a letter nor a digit.                                                   *)
(***************************************************************************)
RepoRoot == <<"repo">>
SpecsDir == <<"repo", "specs">>
SpecTemplatePath == <<"repo", "templates", "spec-template.md">>

\* the CreateFeature calls made in one repository
MaxFeatureCalls == 3

Descriptions == {<<"x">>, <<"X">>, <<"y">>, <<"!">>}

\* the feature numbers in reach
FeatureNumbers == (1..(MaxFeatureCalls + 1)) \cup {999, 1000}

\* fmt.Sprintf("%03d", next)
FeatureNum(next) ==
    IF next < 10 THEN "00" \o ToString(next)
    ELSE IF next < 100 THEN "0" \o ToString(next)
    ELSE ToString(next)

\* createBranchName: the character in lower case, a hyphen in place of what
\* is neither a letter nor a digit
SlugChar(c) == IF c = "X" THEN "x" ELSE IF c \in {"x", "y"} THEN c ELSE "-"

\* createBranchName: the first three words of the characters cs, joined
\* with hyphens, appended to out
RECURSIVE SlugFrom(_, _, _, _)
SlugFrom(cs, out, nwords, inWord) ==
    IF cs = <<>> THEN out
    ELSE IF SlugChar(Head(cs)) = "-" THEN SlugFrom(Tail(cs), out, nwords, FALSE)
    ELSE IF inWord THEN SlugFrom(Tail(cs), out \o SlugChar(Head(cs)), nwords, TRUE)
    ELSE IF nwords = 3 THEN out
    ELSE SlugFrom(Tail(cs), (IF nwords = 0 THEN out ELSE out \o "-") \o SlugChar(Head(cs)),
                  nwords + 1, TRUE)

\* FeatureService.createBranchName(description, featureNum)
createBranchName(description, featureNum) ==
    SlugFrom(description, featureNum \o "-", 0, FALSE)

\* the names of the features in reach, each with its number
FeatureNames ==
    {[name |-> createBranchName(d, FeatureNum(n)), num |-> n] :
        n \in FeatureNumbers, d \in Descriptions}

\* the number of the feature called name
NumberOf(name) == (CHOOSE r \in FeatureNames : r.name = name).num

IsFeatureName(name) == \E r \in FeatureNames : r.name = name

\* strconv.Atoi(entry[:3]): the number the first three characters of a
\* feature name spell; a name that does not start with digits has none
LeadingNumber(entry) ==
    IF NumberOf(entry) < 1000 THEN NumberOf(entry) ELSE NumberOf(entry) \div 10

\* FeatureService.getHighestFeatureNumber(specsDir)
getHighestFeatureNumber(f, specsDir) ==
    IF ~IsDir(f, specsDir) THEN 0
    ELSE With({LeadingNumber(e) : e \in {x \in ReadDir(f, specsDir) : IsFeatureName(x)}} \cup {0},
              LAMBDA S : CHOOSE n \in S : \A k \in S : k <= n)

\* GitService.CreateBranch(branchName): git checkout -b
CreateBranch(bs, branchName, fault) ==
    IF branchName \in bs \/ fault = "branch"
    THEN [branches |-> bs, err |-> "failed to create branch"]
    ELSE [branches |-> bs \cup {branchName}, err |-> "none"]

\* CreateFeature after its CreateBranch: the feature directory and the
\* specification file
CreateFeatureFiles(f, featureDir, fault) ==
    ThenAs(IF fault = "mkdir" THEN Fail(f, "mkdir") ELSE CreateDirectory(f, featureDir),
           "failed to create feature directory", LAMBDA g :
           IF IsFile(g, SpecTemplatePath)
           THEN ThenAs(IF fault = "write" THEN Fail(g, "write")
                       ELSE CopyFile(g, SpecTemplatePath, Append(featureDir, "spec.md")),
                       "failed to copy template", LAMBDA h : Ok(h))
           ELSE ThenAs(IF fault = "write" THEN Fail(g, "write")
                       ELSE WriteFile(g, Append(featureDir, "spec.md"), Bytes(1)),
                       "failed to create spec file", LAMBDA h : Ok(h)))

\* FeatureService.CreateFeature(description); fault is the step that meets
\* an I/O failure, or "none"
CreateFeature(f, bs, description, fault) ==
    IF CreateDirectory(f, SpecsDir).err # "none"
    THEN [fs |-> f, branches |-> bs, err |-> "failed to create specs directory",
          num |-> 0, name |-> ""]
    ELSE With(CreateDirectory(f, SpecsDir).fs, LAMBDA g :
         With(getHighestFeatureNumber(g, SpecsDir) + 1, LAMBDA next :
         With(createBranchName(description, FeatureNum(next)), LAMBDA branchName :
         With(CreateBranch(bs, branchName, fault), LAMBDA b :
              IF b.err # "none"
              THEN [fs |-> g, branches |-> bs, err |-> b.err, num |-> next, name |-> branchName]
              ELSE With(CreateFeatureFiles(g, Append(SpecsDir, branchName), fault), LAMBDA w :
                        [fs |-> w.fs, branches |-> b.branches, err |-> w.err,
                         num |-> next, name |-> branchName])))))

\* the repositories a run starts from: without features, with the feature
\* 001-x, or with the feature 999-x; with or without the template
FeatureInit ==
    /\ DocIdle
    /\ ResolverIdle
    /\ ProcIdle
    /\ \E first \in {"", "001-x", "999-x"}, tmpl \in {NoData, Bytes(2)} :
          /\ fs = Mount(RepoRoot, Opt(<<"templates", "spec-template.md">>, tmpl))
                    @@ (IF first = "" THEN <<>>
                        ELSE Mount(Append(SpecsDir, first), Opt(<<"spec.md">>, Bytes(1))))
          /\ branches = IF first = "" THEN {"main"} ELSE {"main", first}
    /\ fs0 = fs
    /\ call = [op |-> "none", n |-> 0, clean |-> TRUE]
    /\ res = ""

\* runFeatureCreate: one "specify feature create <description>"
CreateFeatureCall ==
    /\ call.n < MaxFeatureCalls
    /\ \E description \in Descriptions, fault \in {"none", "branch", "mkdir", "write"} :
          \E out \in {CreateFeature(fs, branches, description, fault)} :
             /\ fs' = out.fs
             /\ branches' = out.branches
             /\ res' = out.err
             /\ call' = [op |-> "CreateFeature", n |-> call.n + 1,
                         description |-> description, fault |-> fault,
                         featureNum |-> out.num, branchName |-> out.name,
                         branchesBefore |-> branches,
                         clean |-> call.clean /\ (out.err = "none" \/ out.branches = branches)]
    /\ fs0' = fs
    /\ UNCHANGED <<docVars, resolverVars, procVars>>

FeatureNext == CreateFeatureCall

SpecFeature == FeatureInit /\ [][FeatureNext]_vars

\* the feature numbers of the branches bs and of the entries of the specs
\* directory of f
NumbersIn(f, bs) ==
    {NumberOf(b) : b \in {x \in bs : IsFeatureName(x)}}
        \cup {NumberOf(e) : e \in {x \in ReadDir(f, SpecsDir) : IsFeatureName(x)}}

\* C30: a feature that CreateFeature created has a number above every
\* feature number a branch or a specs directory of the repository had before
\* the call.
C30_NumberAboveAll ==
    (call.op = "CreateFeature" /\ res = "none") =>
        \A n \in NumbersIn(fs0, call.branchesBefore) : call.featureNum > n

\* the same while no call has failed after it made its branch and the
\* numbers have three digits
C30_NumberAboveAllCleanRuns ==
    (call.op = "CreateFeature" /\ res = "none" /\ call.clean /\ call.featureNum < 1000) =>
        \A n \in NumbersIn(fs0, call.branchesBefore) : call.featureNum > n
====
